---- MODULE Spec2Model ----
(***************************************************************************)
(* Model of the search-logs admin dashboard: the AI-chat log table         *)
(* (fetchLogs fan-out/fan-in, filter / sort / paginate), the worker        *)
(* control panel (confirm dialog, executeAction, activity log) and the     *)
(* config page (addItemToFirebase / deleteItemFromFirebase).               *)
(*                                                                         *)
(* Strings are sequences of one-character strings, confidence values are   *)
(* counted in tenths, times are counted in hours.                          *)
(***************************************************************************)
EXTENDS Integers, Sequences, FiniteSets, TLC

VARIABLES
    \* ---- AI-chat log table (AIChatLogsTable.tsx) ----
    store,              \* aiChatLogs/{day}: day -> sequence of stored entries
    mounted,            \* the mount effects have run
    logs,               \* useState logs
    loading,            \* useState loading
    error,              \* useState error (Null or a message)
    fromDate, toDate,   \* date inputs (day numbers)
    fetch,              \* fetchLogs invocations: pc, range, pending reads, the days
                        \* it warned about on the console, formattedData
    consoleWarn,        \* console.error entries written by loadDeviceMappings
    deviceMappings,     \* useState deviceMappings (device id -> display name)
    mappingsPc,         \* loadDeviceMappings: idle, pending, done or failed
    deviceId, debouncedDeviceId,
    userMessage, debouncedUserMessage,
    aiModel,
    minConfidence, maxConfidence,
    minProcessingTime, maxProcessingTime,
    minTokens, maxTokens,
    timeRange,
    now,                \* the clock read by the time-range filter
    sortConfig,         \* useState sortConfig [key, direction]
    currentPage,        \* useState currentPage
    \* ---- worker control panel (WorkerControlPanel) ----
    user,               \* AuthContext user (Null when signed out)
    confirmDialog,      \* [show, action]
    updating,           \* [worker, ai]
    wcError,            \* useState error of the panel
    workerStatus, aiStatus,
    exec,               \* executeAction invocations
    requests,           \* POST /admin/worker-status requests in flight
    kv,                 \* the edge worker's stored statuses
    workerActivityLogs, \* entries pushed under workerActivityLogs
    clock,              \* Date.now()
    \* ---- config page (ConfigPage.tsx) ----
    config,             \* config/searchSettings/{category}: key -> item
    adds,               \* addItemToFirebase / deleteItemFromFirebase invocations
    searchValue,        \* the category's search box
    unhandled,          \* promise rejections no handler caught
    \* ---- worker control panel: auto-refresh ----
    panelMounted,       \* the panel is on screen
    autoRefresh,        \* useState autoRefresh
    interval,           \* the setInterval timers running: the ms since each last fired
    intervalCalls,      \* fetchWorkerStatus / runHealthChecks calls of the callback
    healthCheck,        \* useState healthCheck (Null or the last result)
    \* ---- AI-chat log table: useDebounce ----
    handler,            \* per debounced field, the setTimeout timers pending: the
                        \* value each will emit and the ms since it was set
    \* ---- AI-chat log table: bulk selection ----
    selectedLogs,       \* useState selectedLogs (a Set of log ids)
    selectAll,          \* useState selectAll
    csv,                \* the rows of the last CSV download (<<>>: none yet)
    \* ---- device management (DeviceManagement.tsx) ----
    deviceRegistry,     \* deviceRegistry/{deviceId}: device id -> stored record
    devices,            \* useState devices (the local list)
    devError,           \* useState error (Null or a message)
    devOps,             \* handler invocations: kind, form, per-device read / write
    \* ---- routing and sign-in (App, ProtectedRoute, LoginPage, AuthProvider) ----
    path,               \* the location the router shows
    history,            \* the history entries behind it, oldest first
    authUser,           \* the account Firebase Auth holds signed in (Null: none)
    login               \* handleLogin: "idle" or "popup" (awaiting signInWithPopup)

tableVars == <<store, mounted, logs, loading, error, fromDate, toDate, fetch,
               consoleWarn, deviceMappings, mappingsPc, deviceId, debouncedDeviceId,
               userMessage, debouncedUserMessage, aiModel, minConfidence,
               maxConfidence, minProcessingTime, maxProcessingTime, minTokens,
               maxTokens, timeRange, now, sortConfig, currentPage>>
filterVars == <<deviceId, debouncedDeviceId, userMessage, debouncedUserMessage,
                aiModel, minConfidence, maxConfidence, minProcessingTime,
                maxProcessingTime, minTokens, maxTokens, timeRange>>
workerVars == <<user, confirmDialog, updating, wcError, workerStatus, aiStatus,
                exec, requests, kv, workerActivityLogs, clock>>
configVars == <<config, adds, searchValue, unhandled>>
refreshVars == <<panelMounted, autoRefresh, interval, intervalCalls, healthCheck>>
\* the state of the views added to the three above
debounceVars == <<handler>>
selectVars == <<selectedLogs, selectAll, csv>>
deviceVars == <<deviceRegistry, devices, devError, devOps>>
routeVars == <<path, history, authUser, login>>
viewVars == <<refreshVars, debounceVars, selectVars, deviceVars, routeVars>>
\* the view state outside one component
exceptRefresh == <<debounceVars, selectVars, deviceVars, routeVars>>
exceptDebounce == <<refreshVars, selectVars, deviceVars, routeVars>>
exceptSelect == <<refreshVars, debounceVars, deviceVars, routeVars>>
exceptDevices == <<refreshVars, debounceVars, selectVars, routeVars>>
exceptRoute == <<refreshVars, debounceVars, selectVars, deviceVars>>
vars == <<tableVars, workerVars, configVars, viewVars>>

Null == "null"

\* ------------------------------------------------------------------------
\* Bounds of the model
\* ------------------------------------------------------------------------
MaxDay == 2         \* day buckets 1..MaxDay exist as dates the user can pick
MaxFetches == 2     \* fetchLogs invocations per run
MaxLen == 3         \* length of the log lists drawn for the filter / sort checks
MaxExec == 1        \* executeAction invocations per run
MaxAdds == 2        \* addItemToFirebase / deleteItemFromFirebase invocations per run

Days == 1..MaxDay

\* ------------------------------------------------------------------------
\* Strings
\* ------------------------------------------------------------------------
Lower(c) == CASE c = "A" -> "a" [] c = "B" -> "b" [] OTHER -> c

\* String.prototype.toLowerCase
ToLowerCase(s) == [i \in 1..Len(s) |-> Lower(s[i])]

\* String.prototype.includes
Includes(s, t) ==
    \E i \in 0..(Len(s) - Len(t)) : SubSeq(s, i + 1, i + Len(t)) = t

CharRank(c) == CASE c = "a" -> 1 [] c = "A" -> 1 [] c = "b" -> 2 [] c = "B" -> 2
                 [] OTHER -> 0
CaseRank(c) == IF c = "A" \/ c = "B" THEN 1 ELSE 0

RECURSIVE LexCompare(_, _, _)
\* lexicographic comparison of two sequences of numbers, from position i on
LexCompare(s, t, i) ==
    IF i > Len(s) /\ i > Len(t) THEN 0
    ELSE IF i > Len(s) THEN -1
    ELSE IF i > Len(t) THEN 1
    ELSE IF s[i] < t[i] THEN -1
    ELSE IF s[i] > t[i] THEN 1
    ELSE LexCompare(s, t, i + 1)

\* String.prototype.localeCompare: letters first, case as the tie-break
\* (lower case before upper case)
LocaleCompare(s, t) ==
    LET primary == LexCompare([i \in 1..Len(s) |-> CharRank(s[i])],
                              [i \in 1..Len(t) |-> CharRank(t[i])], 1)
    IN  IF primary # 0 THEN primary
        ELSE LexCompare([i \in 1..Len(s) |-> CaseRank(s[i])],
                        [i \in 1..Len(t) |-> CaseRank(t[i])], 1)

\* ------------------------------------------------------------------------
\* Number inputs: the text of an <input type="number"> and what the filters
\* parse out of it
\* ------------------------------------------------------------------------
Digit(c) == CASE c = "0" -> 0 [] c = "1" -> 1 [] c = "2" -> 2 [] c = "3" -> 3
              [] c = "4" -> 4 [] c = "5" -> 5 [] c = "6" -> 6 [] c = "7" -> 7
              [] c = "8" -> 8 [] c = "9" -> 9 [] OTHER -> -1
IsDigit(c) == Digit(c) >= 0

RECURSIVE DigitRun(_, _)
\* the number of leading digits of s from position i on
DigitRun(s, i) ==
    IF i <= Len(s) /\ IsDigit(s[i]) THEN 1 + DigitRun(s, i + 1) ELSE 0

RECURSIVE DigitsValue(_, _)
DigitsValue(s, n) ==
    IF n = 0 THEN 0 ELSE 10 * DigitsValue(s, n - 1) + Digit(s[n])

\* parseInt(text): the leading run of digits, NaN when there is none
ParseInt(s) ==
    LET n == DigitRun(s, 1)
    IN  IF n = 0 THEN [nan |-> TRUE, val |-> 0]
        ELSE [nan |-> FALSE, val |-> DigitsValue(s, n)]

\* parseFloat(text), in tenths: digits, then an optional fraction
ParseFloat(s) ==
    LET n == DigitRun(s, 1)
        hasFrac == n + 2 <= Len(s) /\ s[n + 1] = "." /\ IsDigit(s[n + 2])
    IN  IF n = 0 /\ ~hasFrac THEN [nan |-> TRUE, val |-> 0]
        ELSE [nan |-> FALSE,
              val |-> 10 * DigitsValue(s, n)
                      + (IF hasFrac THEN Digit(s[n + 2]) ELSE 0)]

IsSpace(c) == c = " "
RECURSIVE TrimStart(_)
TrimStart(s) == IF s # <<>> /\ IsSpace(Head(s)) THEN TrimStart(Tail(s)) ELSE s
RECURSIVE TrimEnd(_)
TrimEnd(s) ==
    IF s # <<>> /\ IsSpace(s[Len(s)]) THEN TrimEnd(SubSeq(s, 1, Len(s) - 1)) ELSE s
\* String.prototype.trim
Trim(s) == TrimEnd(TrimStart(s))

\* ------------------------------------------------------------------------
\* Log records (AIChatLog): id, date (hours), deviceId, userMessage, aiModel,
\* confidence (tenths), processingTime, tokensUsed
\* ------------------------------------------------------------------------
Min(a, b) == IF a < b THEN a ELSE b

\* deviceMappings[log.deviceId] || log.deviceId
DisplayName(log) ==
    IF deviceMappings[log.deviceId] # <<>> THEN deviceMappings[log.deviceId]
    ELSE log.deviceId

\* timeRanges[timeRange]: the cutoff of a quick time range, in hours
HasTimeRange(r) == r \in {"1h", "24h", "7d", "30d"}
Cutoff(r) ==
    CASE r = "1h" -> now - 1
      [] r = "24h" -> now - 24
      [] r = "7d" -> now - 7 * 24
      [] r = "30d" -> now - 30 * 24

\* the filters of filteredLogs, applied one after the other to a record: a
\* filter is skipped while its field is empty or its number does not parse
Passes(log) ==
    /\ debouncedDeviceId # <<>> =>
          Includes(ToLowerCase(DisplayName(log)), ToLowerCase(debouncedDeviceId))
    /\ debouncedUserMessage # <<>> =>
          Includes(ToLowerCase(log.userMessage), ToLowerCase(debouncedUserMessage))
    /\ aiModel # <<>> => log.aiModel = aiModel
    /\ (minConfidence # <<>> /\ ~ParseFloat(minConfidence).nan) =>
          log.confidence >= ParseFloat(minConfidence).val
    /\ (maxConfidence # <<>> /\ ~ParseFloat(maxConfidence).nan) =>
          log.confidence <= ParseFloat(maxConfidence).val
    /\ (minProcessingTime # <<>> /\ ~ParseInt(minProcessingTime).nan) =>
          log.processingTime >= ParseInt(minProcessingTime).val
    /\ (maxProcessingTime # <<>> /\ ~ParseInt(maxProcessingTime).nan) =>
          log.processingTime <= ParseInt(maxProcessingTime).val
    /\ (minTokens # <<>> /\ ~ParseInt(minTokens).nan) =>
          log.tokensUsed >= ParseInt(minTokens).val
    /\ (maxTokens # <<>> /\ ~ParseInt(maxTokens).nan) =>
          log.tokensUsed <= ParseInt(maxTokens).val
    /\ (timeRange # "" /\ HasTimeRange(timeRange)) => log.date >= Cutoff(timeRange)

\* useMemo filteredLogs
filteredLogs == SelectSeq(logs, Passes)

\* a comparator that orders by the key but never reverses for "desc"
DescendingIgnored(a, b) ==
    IF sortConfig.key = "deviceId"
    THEN LocaleCompare(DisplayName(a), DisplayName(b))
    ELSE IF sortConfig.key = "date" THEN a.date - b.date
    ELSE IF sortConfig.key = "confidence" THEN a.confidence - b.confidence
    ELSE IF sortConfig.key = "processingTime"
    THEN a.processingTime - b.processingTime
    ELSE LocaleCompare(a.userMessage, b.userMessage)

\* the comparator handed to Array.prototype.sort by sortedLogs
CompareLogs(a, b) ==
    LET asc == sortConfig.direction = "asc"
    IN  IF sortConfig.key = "deviceId"
        THEN LET comparison == LocaleCompare(DisplayName(a), DisplayName(b))
             IN  IF asc THEN comparison ELSE -comparison
        ELSE IF sortConfig.key = "date"
        THEN IF asc THEN a.date - b.date ELSE b.date - a.date
        ELSE IF sortConfig.key = "confidence"
        THEN LET comparison == a.confidence - b.confidence
             IN  IF asc THEN comparison ELSE -comparison
        ELSE IF sortConfig.key = "processingTime"
        THEN LET comparison == a.processingTime - b.processingTime
             IN  IF asc THEN comparison ELSE -comparison
        ELSE LET comparison == LocaleCompare(a.userMessage, b.userMessage)
             IN  IF asc THEN comparison ELSE -comparison

\* the comparator with its operands exchanged: oldest first
CompareOldestFirst(a, b) == a.date - b.date

\* the comparator of fetchLogs: newest first
CompareNewestFirst(a, b) == b.date - a.date

Compare(mode, a, b) ==
    IF mode = "fetch" THEN CompareNewestFirst(a, b) ELSE CompareLogs(a, b)

\* Array.prototype.sort (a stable sort): each record is inserted from the right
\* and moves left only past the records it compares before
ArraySort(mode, s) == SortSeq(s, LAMBDA a, b : Compare(mode, a, b) < 0)

\* useMemo sortedLogs
sortedLogs == ArraySort("table", filteredLogs)

\* Array.prototype.slice(a, b) with 0 <= a
Slice(s, a, b) == SubSeq(s, a + 1, Min(b, Len(s)))

itemsPerPage == 50

\* useMemo paginatedLogs
paginatedLogs ==
    LET startIndex == (currentPage - 1) * itemsPerPage
    IN  Slice(sortedLogs, startIndex, startIndex + itemsPerPage)

\* Math.ceil(sortedLogs.length / itemsPerPage)
totalPages == (Len(sortedLogs) + itemsPerPage - 1) \div itemsPerPage

\* renderPagination: the "Showing X to Y of N" figures
showingFrom == (currentPage - 1) * itemsPerPage + 1
showingTo == Min(currentPage * itemsPerPage, Len(sortedLogs))
showingOf == Len(sortedLogs)

\* the results block (and renderPagination in it) is on screen
resultsShown == ~loading /\ Len(sortedLogs) > 0

\* renderPagination returns the bar: the results are shown and totalPages > 1
paginationShown == resultsShown /\ totalPages > 1

\* ------------------------------------------------------------------------
\* The backing store
\* ------------------------------------------------------------------------
DeviceIds == {<<"a">>, <<"B">>}
Models == {<<"a">>, <<"b">>}

\* deviceRegistry/{deviceId}.deviceName (device B has no name)
Registry == [d \in DeviceIds |-> IF d = <<"a">> THEN <<"A", "b">> ELSE <<>>]

Entry(id, hasDate, date, dev, msg, model, conf, pt, tok) ==
    [id |-> id, hasDate |-> hasDate, date |-> date, deviceId |-> dev,
     userMessage |-> msg, aiModel |-> model, confidence |-> conf,
     processingTime |-> pt, tokensUsed |-> tok]

\* a quiet store: three chats on day 1 (the third repeats the first under
\* another key), one on day 2
SmallStore ==
    [d \in Days |->
        IF d = 1
        THEN << Entry(<<1, 1>>, TRUE, 30, <<"a">>, <<"a", "B">>, <<"a">>, 7, 1, 2),
                Entry(<<1, 2>>, FALSE, 0, <<"B">>, <<"b">>, <<"b">>, 4, 2, 1),
                Entry(<<1, 3>>, TRUE, 30, <<"a">>, <<"a", "B">>, <<"a">>, 7, 1, 2) >>
        ELSE IF d = 2
        THEN << Entry(<<2, 1>>, TRUE, 50, <<"a">>, <<"a">>, <<"a">>, 3, 1, 1) >>
        ELSE << >>]

\* a store where chats of two buckets carry the same date: the first chat of
\* day 1 is dated at the start of day 2, the first chat of day 2 has no date
TieStore ==
    [d \in Days |->
        IF d = 1
        THEN << Entry(<<1, 1>>, TRUE, 48, <<"a">>, <<"a">>, <<"a">>, 7, 1, 2),
                Entry(<<1, 2>>, TRUE, 30, <<"B">>, <<"b">>, <<"b">>, 4, 2, 1) >>
        ELSE IF d = 2
        THEN << Entry(<<2, 1>>, FALSE, 0, <<"a">>, <<"b">>, <<"a">>, 3, 1, 1),
                Entry(<<2, 2>>, TRUE, 50, <<"a">>, <<"a">>, <<"a">>, 3, 1, 1) >>
        ELSE << >>]

\* a busy store: 51 chats every day, so that two days fill three pages
BusyDay == 1..(itemsPerPage + 1)
BigStore ==
    [d \in Days |->
        [i \in BusyDay |->
            Entry(<<d, i>>, TRUE, 24 * d + (i % 24),
                  IF i = 1 THEN <<"B">> ELSE <<"a">>,
                  IF i % 2 = 0 THEN <<"a">> ELSE <<"b">>,
                  IF d = 1 THEN <<"a">> ELSE <<"b">>,
                  (i % 3) + 3, i % 5, i % 4)]]

\* the record fetchLogs pushes for a stored entry:
\* { id, date: new Date(entry.date || day start).toISOString(), ...entry }
FormatEntry(day, e) ==
    [id |-> e.id, date |-> IF e.hasDate THEN e.date ELSE 24 * day,
     deviceId |-> e.deviceId, userMessage |-> e.userMessage,
     aiModel |-> e.aiModel, confidence |-> e.confidence,
     processingTime |-> e.processingTime, tokensUsed |-> e.tokensUsed]

FormatDay(day, entries) == [i \in 1..Len(entries) |-> FormatEntry(day, entries[i])]

\* the calendar: day 1 of the store is 2024-09-30, day 2 is 2024-10-01
\* getFullYear()
GetFullYear(t) == 2024
\* getMonth(): 0-based
GetMonth(t) == IF t \div 24 <= 1 THEN 8 ELSE 9
\* getDate()
GetDate(t) == IF t \div 24 <= 1 THEN 29 + (t \div 24) ELSE (t \div 24) - 1

\* toJST(new Date(dateStr)): the date picked, read as UTC midnight, shown as
\* Japan wall-clock time (09:00 of that day), in hours
ToJST(day) == 24 * day + 9
\* setHours(0, 0, 0, 0)
StartOfDay(t) == 24 * (t \div 24)
\* setHours(23, 59, 59, 999), to the hour
EndOfDay(t) == 24 * (t \div 24) + 23

Digits == <<"0", "1", "2", "3", "4", "5", "6", "7", "8", "9">>
RECURSIVE NumberToString(_)
\* String(n) of a non-negative integer
NumberToString(n) ==
    IF n < 10 THEN <<Digits[n + 1]>>
    ELSE NumberToString(n \div 10) \o <<Digits[(n % 10) + 1]>>

\* the text left as it is
PadStartSkipped(s, targetLength, padString) == s

RECURSIVE PadStart(_, _, _)
\* String.prototype.padStart with a one-character pad
PadStart(s, targetLength, padString) ==
    IF Len(s) >= targetLength THEN s
    ELSE PadStart(<<padString>> \o s, targetLength, padString)

\* the root of the logs in the store
Root == "aiChatLogs"

\* ref(databaseLog, `aiChatLogs/${year}/${month}/${day}`) for currentDate
DayRef(currentDate) ==
    [day |-> currentDate \div 24,
     path |-> << Root, NumberToString(GetFullYear(currentDate)),
                 PadStart(NumberToString(GetMonth(currentDate) + 1), 2, "0"),
                 PadStart(NumberToString(GetDate(currentDate)), 2, "0") >>]

RECURSIVE WhileLoop(_, _, _)
\* while (currentDate <= toDateTime) { promises.push(get(dayRef)...);
\* currentDate.setDate(currentDate.getDate() + 1) }
WhileLoop(currentDate, toDateTime, promises) ==
    IF currentDate <= toDateTime
    THEN WhileLoop(currentDate + 24, toDateTime, Append(promises, DayRef(currentDate)))
    ELSE promises

\* the reads fetchLogs(fromDateStr, toDateStr) issues, in the order of the loop
Promises(from, to) == WhileLoop(StartOfDay(ToJST(from)), EndOfDay(ToJST(to)), <<>>)

\* the days the while loop of fetchLogs walks through
DayRange(from, to) ==
    {Promises(from, to)[i].day : i \in 1..Len(Promises(from, to))}

\* ------------------------------------------------------------------------
\* AI-chat log table: fetchLogs
\* ------------------------------------------------------------------------
FetchIds == 1..MaxFetches
IdleFetch == [pc |-> "idle", from |-> 0, to |-> 0, promises |-> <<>>,
              pending |-> {}, failed |-> {},
              warned |-> {}, succeeded |-> {}, formattedData |-> <<>>]
\* a call that has returned: its locals are gone, the days whose read failed
\* are kept for reference
DoneFetch(failed) == [IdleFetch EXCEPT !.pc = "done", !.failed = failed]
FreeFetch(f) == fetch[f].pc = "idle" /\ \A g \in 1..(f - 1) : fetch[g].pc # "idle"

\* fetchLogs up to its await: setLoading(true), setError(null), one get per day
StartFetch(f) ==
    /\ FreeFetch(f)
    /\ loading' = TRUE
    /\ error' = Null
    /\ fetch' = [fetch EXCEPT ![f] =
                    [pc |-> "awaiting", from |-> fromDate, to |-> toDate,
                     promises |-> Promises(fromDate, toDate),
                     pending |-> DayRange(fromDate, toDate), failed |-> {},
                     warned |-> {}, succeeded |-> {}, formattedData |-> <<>>]]

\* the mount effects: loadDeviceMappings() and fetchLogs(fromDate, toDate)
Mount ==
    /\ ~mounted
    /\ mounted' = TRUE
    /\ mappingsPc' = "pending"
    /\ StartFetch(1)
    /\ UNCHANGED <<store, logs, fromDate, toDate, consoleWarn, deviceMappings,
                   filterVars, now, sortConfig, currentPage>>

\* loadDeviceMappings: the registry read resolves
MappingsResolve ==
    /\ mappingsPc = "pending"
    /\ mappingsPc' = "done"
    /\ deviceMappings' = [d \in DeviceIds |->
                            IF Registry[d] # <<>> THEN Registry[d] ELSE d]
    /\ UNCHANGED <<store, mounted, logs, loading, error, fromDate, toDate, fetch,
                   consoleWarn, filterVars, now, sortConfig, currentPage>>

\* loadDeviceMappings: the registry read rejects; the catch logs it
MappingsReject ==
    /\ mappingsPc = "pending"
    /\ mappingsPc' = "failed"
    /\ consoleWarn' = consoleWarn \cup {"Error loading device mappings:"}
    /\ UNCHANGED <<store, mounted, logs, loading, error, fromDate, toDate, fetch,
                   deviceMappings, filterVars, now, sortConfig, currentPage>>

SetFromDate(d) ==
    /\ mounted /\ fromDate # d
    /\ fromDate' = d
    /\ UNCHANGED <<store, mounted, logs, loading, error, toDate, fetch, consoleWarn,
                   deviceMappings, mappingsPc, filterVars, now, sortConfig,
                   currentPage>>

SetToDate(d) ==
    /\ mounted /\ toDate # d
    /\ toDate' = d
    /\ UNCHANGED <<store, mounted, logs, loading, error, fromDate, fetch,
                   consoleWarn, deviceMappings, mappingsPc, filterVars, now,
                   sortConfig, currentPage>>

\* handleFilter: setCurrentPage(1); fetchLogs(fromDate, toDate)
HandleFilter(f) ==
    /\ mounted
    /\ currentPage' = 1
    /\ StartFetch(f)
    /\ UNCHANGED <<store, mounted, logs, fromDate, toDate, consoleWarn,
                   deviceMappings, mappingsPc, filterVars, now, sortConfig>>

\* the Filter button (disabled while loading)
HandleFilterClick(f) == ~loading /\ HandleFilter(f)

\* handleKeyPress: Enter in a filter field
HandleKeyPressEnter(f) == HandleFilter(f)

\* get(dayRef).then(...): the day's entries are pushed onto formattedData
BucketResolve(f, d) ==
    /\ fetch[f].pc = "awaiting" /\ d \in fetch[f].pending
    /\ fetch' = [fetch EXCEPT
                    ![f].pending = @ \ {d},
                    ![f].succeeded = @ \cup {d},
                    ![f].formattedData = @ \o FormatDay(d, store[d])]
    /\ UNCHANGED <<store, mounted, logs, loading, error, fromDate, toDate,
                   consoleWarn, deviceMappings, mappingsPc, filterVars, now,
                   sortConfig, currentPage>>

\* the read rejects and nothing catches it: Promise.all rejects, the outer
\* catch sets the error and the finally block clears loading
BucketRejectUncaught(f, d) ==
    /\ fetch[f].pc = "awaiting" /\ d \in fetch[f].pending
    /\ fetch' = [fetch EXCEPT ![f] = DoneFetch(fetch[f].failed \cup {d})]
    /\ error' = "Failed to fetch AI chat logs. Please try again."
    /\ loading' = FALSE
    /\ UNCHANGED <<store, mounted, logs, fromDate, toDate, consoleWarn,
                   deviceMappings, mappingsPc, filterVars, now, sortConfig,
                   currentPage>>

\* get(dayRef) rejects: .catch(err => console.warn(...))
BucketReject(f, d) ==
    /\ fetch[f].pc = "awaiting" /\ d \in fetch[f].pending
    /\ fetch' = [fetch EXCEPT ![f].pending = @ \ {d}, ![f].failed = @ \cup {d},
                              ![f].warned = @ \cup {d}]
    /\ UNCHANGED <<store, mounted, logs, loading, error, fromDate, toDate,
                   consoleWarn, deviceMappings, mappingsPc, filterVars, now, sortConfig,
                   currentPage>>

\* publishing without waiting for the pending reads
AllSettledIgnored(f) == TRUE

\* await Promise.all(promises)
AllSettled(f) == fetch[f].pending = {}

\* after the await: sort newest first, setLogs, finally setLoading(false)
FetchPublish(f) ==
    /\ fetch[f].pc = "awaiting" /\ AllSettled(f)
    /\ logs' = ArraySort("fetch", fetch[f].formattedData)
    /\ loading' = FALSE
    /\ fetch' = [fetch EXCEPT ![f] = DoneFetch(fetch[f].failed)]
    /\ UNCHANGED <<store, mounted, error, fromDate, toDate, consoleWarn,
                   deviceMappings, mappingsPc, filterVars, now, sortConfig,
                   currentPage>>

\* ------------------------------------------------------------------------
\* AI-chat log table: filter fields, sort buttons, pagination buttons
\* ------------------------------------------------------------------------
fetchVars == <<store, mounted, logs, loading, error, fromDate, toDate, fetch,
               consoleWarn, deviceMappings, mappingsPc>>

\* onChange of the device field: setDeviceId
SetDeviceId(v) ==
    /\ mounted /\ deviceId # v
    /\ deviceId' = v
    /\ UNCHANGED <<fetchVars, debouncedDeviceId, userMessage, debouncedUserMessage,
                   aiModel, minConfidence, maxConfidence, minProcessingTime,
                   maxProcessingTime, minTokens, maxTokens, timeRange, now,
                   sortConfig, currentPage>>

\* useDebounce(deviceId, 300): the timer fires
DebounceDeviceId ==
    /\ debouncedDeviceId # deviceId
    /\ debouncedDeviceId' = deviceId
    /\ UNCHANGED <<fetchVars, deviceId, userMessage, debouncedUserMessage,
                   aiModel, minConfidence, maxConfidence, minProcessingTime,
                   maxProcessingTime, minTokens, maxTokens, timeRange, now,
                   sortConfig, currentPage>>

SetUserMessage(v) ==
    /\ mounted /\ userMessage # v
    /\ userMessage' = v
    /\ UNCHANGED <<fetchVars, deviceId, debouncedDeviceId, debouncedUserMessage,
                   aiModel, minConfidence, maxConfidence, minProcessingTime,
                   maxProcessingTime, minTokens, maxTokens, timeRange, now,
                   sortConfig, currentPage>>

\* useDebounce(userMessage, 300): the timer fires
DebounceUserMessage ==
    /\ debouncedUserMessage # userMessage
    /\ debouncedUserMessage' = userMessage
    /\ UNCHANGED <<fetchVars, deviceId, debouncedDeviceId, userMessage,
                   aiModel, minConfidence, maxConfidence, minProcessingTime,
                   maxProcessingTime, minTokens, maxTokens, timeRange, now,
                   sortConfig, currentPage>>

SetAiModel(v) ==
    /\ mounted /\ aiModel # v
    /\ aiModel' = v
    /\ UNCHANGED <<fetchVars, deviceId, debouncedDeviceId, userMessage,
                   debouncedUserMessage, minConfidence, maxConfidence,
                   minProcessingTime, maxProcessingTime, minTokens, maxTokens,
                   timeRange, now, sortConfig, currentPage>>

SetMinConfidence(v) ==
    /\ mounted /\ minConfidence # v
    /\ minConfidence' = v
    /\ UNCHANGED <<fetchVars, deviceId, debouncedDeviceId, userMessage,
                   debouncedUserMessage, aiModel, maxConfidence,
                   minProcessingTime, maxProcessingTime, minTokens, maxTokens,
                   timeRange, now, sortConfig, currentPage>>

SetMaxConfidence(v) ==
    /\ mounted /\ maxConfidence # v
    /\ maxConfidence' = v
    /\ UNCHANGED <<fetchVars, deviceId, debouncedDeviceId, userMessage,
                   debouncedUserMessage, aiModel, minConfidence,
                   minProcessingTime, maxProcessingTime, minTokens, maxTokens,
                   timeRange, now, sortConfig, currentPage>>

SetMinProcessingTime(v) ==
    /\ mounted /\ minProcessingTime # v
    /\ minProcessingTime' = v
    /\ UNCHANGED <<fetchVars, deviceId, debouncedDeviceId, userMessage,
                   debouncedUserMessage, aiModel, minConfidence, maxConfidence,
                   maxProcessingTime, minTokens, maxTokens, timeRange, now,
                   sortConfig, currentPage>>

SetMaxProcessingTime(v) ==
    /\ mounted /\ maxProcessingTime # v
    /\ maxProcessingTime' = v
    /\ UNCHANGED <<fetchVars, deviceId, debouncedDeviceId, userMessage,
                   debouncedUserMessage, aiModel, minConfidence, maxConfidence,
                   minProcessingTime, minTokens, maxTokens, timeRange, now,
                   sortConfig, currentPage>>

SetMinTokens(v) ==
    /\ mounted /\ minTokens # v
    /\ minTokens' = v
    /\ UNCHANGED <<fetchVars, deviceId, debouncedDeviceId, userMessage,
                   debouncedUserMessage, aiModel, minConfidence, maxConfidence,
                   minProcessingTime, maxProcessingTime, maxTokens, timeRange,
                   now, sortConfig, currentPage>>

SetMaxTokens(v) ==
    /\ mounted /\ maxTokens # v
    /\ maxTokens' = v
    /\ UNCHANGED <<fetchVars, deviceId, debouncedDeviceId, userMessage,
                   debouncedUserMessage, aiModel, minConfidence, maxConfidence,
                   minProcessingTime, maxProcessingTime, minTokens, timeRange,
                   now, sortConfig, currentPage>>

SetTimeRange(v) ==
    /\ mounted /\ timeRange # v
    /\ timeRange' = v
    /\ UNCHANGED <<fetchVars, deviceId, debouncedDeviceId, userMessage,
                   debouncedUserMessage, aiModel, minConfidence, maxConfidence,
                   minProcessingTime, maxProcessingTime, minTokens, maxTokens,
                   now, sortConfig, currentPage>>

\* handleSort(key): ascending first, descending on the second click
HandleSort(key) ==
    /\ mounted
    /\ sortConfig' = [key |-> key,
                      direction |-> IF sortConfig.key = key
                                       /\ sortConfig.direction = "asc"
                                    THEN "desc" ELSE "asc"]
    /\ currentPage' = 1
    /\ UNCHANGED <<fetchVars, filterVars, now>>

\* getPageNumbers of renderPagination: at most five page buttons
pageNumbers ==
    LET maxVisiblePages == 5
        start0 == IF currentPage - 2 > 1 THEN currentPage - 2 ELSE 1
        endPage == Min(totalPages, start0 + maxVisiblePages - 1)
        startPage == IF endPage - start0 + 1 < maxVisiblePages
                     THEN (IF endPage - maxVisiblePages + 1 > 1
                           THEN endPage - maxVisiblePages + 1 ELSE 1)
                     ELSE start0
    IN  startPage..endPage

\* Previous: setCurrentPage(prev => Math.max(prev - 1, 1))
PrevPage ==
    /\ currentPage # 1 /\ paginationShown
    /\ currentPage' = IF currentPage - 1 > 1 THEN currentPage - 1 ELSE 1
    /\ UNCHANGED <<fetchVars, filterVars, now, sortConfig>>

\* Next: setCurrentPage(prev => Math.min(prev + 1, totalPages))
NextPage ==
    /\ paginationShown /\ currentPage # totalPages
    /\ currentPage' = Min(currentPage + 1, totalPages)
    /\ UNCHANGED <<fetchVars, filterVars, now, sortConfig>>

\* a page number button: setCurrentPage(pageNum)
GoToPage(pageNum) ==
    /\ pageNum # currentPage /\ paginationShown /\ pageNum \in pageNumbers
    /\ currentPage' = pageNum
    /\ UNCHANGED <<fetchVars, filterVars, now, sortConfig>>

\* ------------------------------------------------------------------------
\* Initial states
\* ------------------------------------------------------------------------
\* the table as constructed by useState, over a given store
TableInit(s, clockNow) ==
    /\ store = s
    /\ mounted = FALSE
    /\ logs = <<>>
    /\ loading = FALSE
    /\ error = Null
    /\ fromDate = 1 /\ toDate = 1
    /\ fetch = [f \in FetchIds |-> IdleFetch]
    /\ consoleWarn = {}
    /\ deviceMappings = [d \in DeviceIds |-> <<>>]
    /\ mappingsPc = "idle"
    /\ deviceId = <<>> /\ debouncedDeviceId = <<>>
    /\ userMessage = <<>> /\ debouncedUserMessage = <<>>
    /\ aiModel = <<>>
    /\ minConfidence = <<>> /\ maxConfidence = <<>>
    /\ minProcessingTime = <<>> /\ maxProcessingTime = <<>>
    /\ minTokens = <<>> /\ maxTokens = <<>>
    /\ timeRange = ""
    /\ now = clockNow
    /\ sortConfig = [key |-> "date", direction |-> "desc"]
    /\ currentPage = 1

RECURSIVE ConcatDays(_, _, _)
\* the records of days from..to of a store, in day order
ConcatDays(s, from, to) ==
    IF from > to THEN <<>>
    ELSE FormatDay(from, s[from]) \o ConcatDays(s, from + 1, to)

\* the table once mounted, after the fetchLogs call of the mount effect has
\* published days from..to of the store and while loadDeviceMappings is at pc
TableLoaded(s, clockNow, from, to, pc) ==
    /\ store = s
    /\ mounted = TRUE
    /\ logs = ArraySort("fetch", ConcatDays(s, from, to))
    /\ loading = FALSE
    /\ error = Null
    /\ fromDate = from /\ toDate = to
    /\ fetch = [f \in FetchIds |-> IF f = 1 THEN DoneFetch({}) ELSE IdleFetch]
    /\ consoleWarn = IF pc = "failed" THEN {"Error loading device mappings:"} ELSE {}
    /\ deviceMappings = [d \in DeviceIds |->
                            IF pc = "done" /\ Registry[d] # <<>> THEN Registry[d]
                            ELSE IF pc = "done" THEN d ELSE <<>>]
    /\ mappingsPc = pc
    /\ deviceId = <<>> /\ debouncedDeviceId = <<>>
    /\ userMessage = <<>> /\ debouncedUserMessage = <<>>
    /\ aiModel = <<>>
    /\ minConfidence = <<>> /\ maxConfidence = <<>>
    /\ minProcessingTime = <<>> /\ maxProcessingTime = <<>>
    /\ minTokens = <<>> /\ maxTokens = <<>>
    /\ timeRange = ""
    /\ now = clockNow
    /\ sortConfig = [key |-> "date", direction |-> "desc"]
    /\ currentPage = 1

\* ------------------------------------------------------------------------
\* Worker control panel
\* ------------------------------------------------------------------------
Users == {"u1", "u2"}
\* the account that operates the worker panel
Operators == {"u1"}
Absent == "absent"
Actions == {"worker_enabled", "worker_disabled", "ai_enabled", "ai_disabled",
            "bulk_enable", "bulk_disable"}
ExecIds == 1..MaxExec

\* user.getIdToken(), user.uid, user.email
IdToken(u) == <<"idToken", u>>
Uid(u) == <<"uid", u>>
Email(u) == <<"email", u>>

\* the dialog without its action cleared
ClosedDialogKeepsAction == [show |-> FALSE, action |-> "bulk_enable"]
\* { show: false, action: null, message: '' }
ClosedDialog == [show |-> FALSE, action |-> Null]
IdleExec == [pc |-> "idle", action |-> Null, user |-> Null]
\* a call that has returned: its locals are gone
DoneExec == [IdleExec EXCEPT !.pc = "done"]
FreeExec(e) == exec[e].pc = "idle" /\ \A g \in 1..(e - 1) : exec[g].pc # "idle"

\* every action updates both services
UpdatesBoth(action) ==
    IF action \in {"worker_enabled", "ai_enabled", "bulk_enable"}
    THEN [worker_status |-> "on", ai_status |-> "on"]
    ELSE [worker_status |-> "off", ai_status |-> "off"]

\* the switch of executeAction: the update an action sends
Updates(action) ==
    CASE action = "worker_enabled" -> [worker_status |-> "on", ai_status |-> Absent]
      [] action = "worker_disabled" -> [worker_status |-> "off", ai_status |-> Absent]
      [] action = "ai_enabled" -> [worker_status |-> Absent, ai_status |-> "on"]
      [] action = "ai_disabled" -> [worker_status |-> Absent, ai_status |-> "off"]
      [] action = "bulk_enable" -> [worker_status |-> "on", ai_status |-> "on"]
      [] action = "bulk_disable" -> [worker_status |-> "off", ai_status |-> "off"]

\* the switch of executeAction: updateWorker
UpdateWorker(action) == action \notin {"ai_enabled", "ai_disabled"}

\* the switch of executeAction: setUpdating
Updating(action, prev) ==
    CASE action \in {"worker_enabled", "worker_disabled"} ->
            [prev EXCEPT !.worker = TRUE]
      [] action \in {"ai_enabled", "ai_disabled"} -> [prev EXCEPT !.ai = TRUE]
      [] OTHER -> [worker |-> TRUE, ai |-> TRUE]

\* a header built from whoever is signed in when the request goes out
AuthorizationOfCurrentUser(authToken) == <<"Bearer", IdToken(user)>>

\* updateWorkerStatus: 'Authorization': `Bearer ${authToken}`
Authorization(authToken) == <<"Bearer", authToken>>

\* handleWorkerToggle(newStatus), from the worker ON / OFF buttons
HandleWorkerToggle(newStatus) ==
    /\ ~confirmDialog.show
    /\ ~updating.worker
    /\ IF newStatus = "on" THEN workerStatus # "on" ELSE workerStatus = "on"
    /\ user # Null
    /\ confirmDialog' = [show |-> TRUE,
                         action |-> IF newStatus = "on" THEN "worker_enabled"
                                    ELSE "worker_disabled"]
    /\ UNCHANGED <<user, updating, wcError, workerStatus, aiStatus, exec, requests,
                   kv, workerActivityLogs, clock>>

\* handleAIToggle(newStatus), from the AI ON / OFF buttons
HandleAIToggle(newStatus) ==
    /\ ~confirmDialog.show
    /\ ~updating.ai
    /\ IF newStatus = "on" THEN aiStatus # "on" ELSE aiStatus = "on"
    /\ user # Null
    /\ confirmDialog' = [show |-> TRUE,
                         action |-> IF newStatus = "on" THEN "ai_enabled"
                                    ELSE "ai_disabled"]
    /\ UNCHANGED <<user, updating, wcError, workerStatus, aiStatus, exec, requests,
                   kv, workerActivityLogs, clock>>

\* handleBulkEnable, from the Quick Actions
HandleBulkEnable ==
    /\ ~confirmDialog.show
    /\ ~updating.worker /\ ~updating.ai
    /\ ~(workerStatus = "on" /\ aiStatus = "on")
    /\ confirmDialog' = [show |-> TRUE, action |-> "bulk_enable"]
    /\ UNCHANGED <<user, updating, wcError, workerStatus, aiStatus, exec, requests,
                   kv, workerActivityLogs, clock>>

\* handleBulkDisable, from the Quick Actions
HandleBulkDisable ==
    /\ ~confirmDialog.show
    /\ ~updating.worker /\ ~updating.ai
    /\ ~(workerStatus = "off" /\ aiStatus = "off")
    /\ confirmDialog' = [show |-> TRUE, action |-> "bulk_disable"]
    /\ UNCHANGED <<user, updating, wcError, workerStatus, aiStatus, exec, requests,
                   kv, workerActivityLogs, clock>>

\* cancelAction
CancelAction ==
    /\ confirmDialog.show
    /\ confirmDialog' = ClosedDialog
    /\ UNCHANGED <<user, updating, wcError, workerStatus, aiStatus, exec, requests,
                   kv, workerActivityLogs, clock>>

\* executeAction up to its first await (Confirm pressed with a user signed in):
\* the dialog closes, the error is cleared, user.getIdToken() is pending
ExecuteAction(e) ==
    /\ confirmDialog.show
    /\ confirmDialog.action # Null /\ user # Null
    /\ FreeExec(e)
    /\ exec' = [exec EXCEPT ![e] =
                   [pc |-> "token", action |-> confirmDialog.action, user |-> user]]
    /\ confirmDialog' = ClosedDialog
    /\ wcError' = ""
    /\ UNCHANGED <<user, updating, workerStatus, aiStatus, requests, kv,
                   workerActivityLogs, clock>>

\* executeAction pressed with nobody signed in: it returns at once
ExecuteActionNoUser ==
    /\ confirmDialog.show
    /\ confirmDialog.action = Null \/ user = Null
    /\ UNCHANGED workerVars

\* getIdToken resolves: the switch runs and updateWorkerStatus issues the POST
TokenResolve(e) ==
    /\ exec[e].pc = "token"
    /\ updating' = Updating(exec[e].action, updating)
    /\ LET token == IdToken(exec[e].user)
       IN  /\ exec' = [exec EXCEPT ![e].pc = "posting"]
           /\ requests' = requests \cup
                  {[authorization |-> Authorization(token),
                    body |-> Updates(exec[e].action), exec |-> e]}
    /\ UNCHANGED <<user, confirmDialog, wcError, workerStatus, aiStatus, kv,
                   workerActivityLogs, clock>>

\* a step of executeAction throws: catch sets the error, finally clears updating
ExecFails(e, message) ==
    /\ exec' = [exec EXCEPT ![e] = DoneExec]
    /\ wcError' = message
    /\ updating' = [worker |-> FALSE, ai |-> FALSE]

\* getIdToken rejects
TokenReject(e) ==
    /\ exec[e].pc = "token"
    /\ ExecFails(e, "Failed to update worker status")
    /\ UNCHANGED <<user, confirmDialog, workerStatus, aiStatus, requests, kv,
                   workerActivityLogs, clock>>

\* the edge worker applies the fields an update carries
ApplyUpdates(status, updates) ==
    [worker_status |-> IF updates.worker_status # Absent
                       THEN updates.worker_status ELSE status.worker_status,
     ai_status |-> IF updates.ai_status # Absent
                   THEN updates.ai_status ELSE status.ai_status]

\* the logEntry of executeAction: timestamp, userId, userEmail, action (its
\* oldValue, newValue and reason fields are left out)
LogEntry(e) ==
    [timestamp |-> clock, userId |-> Uid(exec[e].user),
     userEmail |-> Email(exec[e].user), action |-> exec[e].action]

\* the request updateWorkerStatus sent for call e
RequestOf(e) == {r \in requests : r.exec = e}

\* the worker accepts the update (response.success): push(logEntry) is issued
PostAccept(e) ==
    /\ exec[e].pc = "posting"
    /\ \E r \in RequestOf(e) : kv' = ApplyUpdates(kv, r.body)
    /\ requests' = requests \ RequestOf(e)
    /\ exec' = [exec EXCEPT ![e].pc = "pushing"]
    /\ clock' = clock + 1
    /\ UNCHANGED <<user, confirmDialog, updating, wcError, workerStatus, aiStatus,
                   workerActivityLogs>>

\* the POST fails, or the worker answers without success
PostFail(e) ==
    /\ exec[e].pc = "posting"
    /\ ExecFails(e, "Failed to update worker status")
    /\ requests' = requests \ RequestOf(e)
    /\ UNCHANGED <<user, confirmDialog, workerStatus, aiStatus, kv,
                   workerActivityLogs, clock>>

\* push(ref(database, 'workerActivityLogs'), logEntry) resolves
PushResolve(e) ==
    /\ exec[e].pc = "pushing"
    /\ workerActivityLogs' = Append(workerActivityLogs, LogEntry(e))
    /\ exec' = [exec EXCEPT ![e].pc = "refresh"]
    /\ UNCHANGED <<user, confirmDialog, updating, wcError, workerStatus, aiStatus,
                   requests, kv, clock>>

\* push rejects
PushReject(e) ==
    /\ exec[e].pc = "pushing"
    /\ ExecFails(e, "Failed to update worker status")
    /\ UNCHANGED <<user, confirmDialog, workerStatus, aiStatus, requests, kv,
                   workerActivityLogs, clock>>

\* fetchWorkerStatus resolves, runHealthChecks ends, finally clears updating
RefreshResolve(e) ==
    /\ exec[e].pc = "refresh"
    /\ workerStatus' = kv.worker_status
    /\ aiStatus' = kv.ai_status
    /\ wcError' = ""
    /\ updating' = [worker |-> FALSE, ai |-> FALSE]
    /\ exec' = [exec EXCEPT ![e] = DoneExec]
    /\ UNCHANGED <<user, confirmDialog, requests, kv, workerActivityLogs, clock>>

\* fetchWorkerStatus catches its own failure; finally clears updating
RefreshReject(e) ==
    /\ exec[e].pc = "refresh"
    /\ workerStatus' = "unknown"
    /\ aiStatus' = "unknown"
    /\ wcError' = "Failed to fetch worker status"
    /\ updating' = [worker |-> FALSE, ai |-> FALSE]
    /\ exec' = [exec EXCEPT ![e] = DoneExec]
    /\ UNCHANGED <<user, confirmDialog, requests, kv, workerActivityLogs, clock>>

\* fetchWorkerStatus from the mount effect or the Refresh button
FetchWorkerStatus ==
    /\ workerStatus # kv.worker_status \/ aiStatus # kv.ai_status
    /\ workerStatus' = kv.worker_status
    /\ aiStatus' = kv.ai_status
    /\ wcError' = ""
    /\ UNCHANGED <<user, confirmDialog, updating, exec, requests, kv,
                   workerActivityLogs, clock>>

\* onAuthStateChanged: setUser(user)
SignIn(u) ==
    /\ user = Null
    /\ user' = u
    /\ UNCHANGED <<confirmDialog, updating, wcError, workerStatus, aiStatus, exec,
                   requests, kv, workerActivityLogs, clock>>

\* signOut, then onAuthStateChanged: setUser(null)
SignOut ==
    /\ user # Null
    /\ user' = Null
    /\ UNCHANGED <<confirmDialog, updating, wcError, workerStatus, aiStatus, exec,
                   requests, kv, workerActivityLogs, clock>>

WorkerInit ==
    /\ user = Null
    /\ confirmDialog = ClosedDialog
    /\ updating = [worker |-> FALSE, ai |-> FALSE]
    /\ wcError = ""
    /\ workerStatus = "unknown" /\ aiStatus = "unknown"
    /\ exec = [e \in ExecIds |-> IdleExec]
    /\ requests = {}
    /\ kv = [worker_status |-> "on", ai_status |-> "off"]
    /\ workerActivityLogs = <<>>
    /\ clock = 0

\* ------------------------------------------------------------------------
\* Config page: one category of config/searchSettings
\* ------------------------------------------------------------------------
Items == {<<"a">>, <<"b">>, <<"a", "b">>}
AddIds == 1..MaxAdds
IdleAdd == [pc |-> "idle", op |-> Null, item |-> <<>>, key |-> 0]
FreeAdd(a) == adds[a].pc = "idle" /\ \A g \in 1..(a - 1) : adds[g].pc # "idle"

\* Object.keys(data).map(Number).sort((a, b) => a - b), as the sorted key list
RECURSIVE SortedKeys(_)
SortedKeys(keys) ==
    IF keys = {} THEN <<>>
    ELSE LET m == CHOOSE k \in keys : \A j \in keys : k <= j
         IN  <<m>> \o SortedKeys(keys \ {m})

RECURSIVE NewKeyFrom(_, _, _)
\* the for loop of addItemToFirebase over existingKeys, from index i (0-based)
NewKeyFrom(existingKeys, i, newKey) ==
    IF i >= Len(existingKeys) THEN newKey
    ELSE IF existingKeys[i + 1] # i THEN i
    ELSE NewKeyFrom(existingKeys, i + 1, i + 1)

\* the key addItemToFirebase writes to, given the category it read
NewKey(data) == NewKeyFrom(SortedKeys(DOMAIN data), 0, 0)

\* renderColumns: the items matching the search box
filteredData ==
    {k \in DOMAIN config :
        Includes(ToLowerCase(config[k]), ToLowerCase(searchValue))}

\* onChange of the search box
SetSearchValue(v) ==
    /\ searchValue # v
    /\ searchValue' = v
    /\ UNCHANGED <<config, adds, unhandled>>

\* the Add button: addItemToFirebase(category, searchValue) up to its await,
\* then setSearchValue('')
AddItem(a) ==
    /\ filteredData = {} /\ searchValue # <<>>
    /\ FreeAdd(a)
    /\ adds' = [adds EXCEPT ![a] = [pc |-> "get", op |-> "add",
                                    item |-> searchValue, key |-> 0]]
    /\ searchValue' = <<>>
    /\ UNCHANGED <<config, unhandled>>

\* the account handleDelete lets through: user?.email === 'john.limpiada@...'
AdminUser == "u1"

\* handleDelete confirmed: deleteItemFromFirebase(category, item) up to its await
DeleteItem(a, k) ==
    /\ user = AdminUser
    /\ searchValue # <<>> /\ k \in filteredData
    /\ FreeAdd(a)
    /\ adds' = [adds EXCEPT ![a] = [pc |-> "get", op |-> "delete",
                                    item |-> config[k], key |-> 0]]
    /\ UNCHANGED <<config, searchValue, unhandled>>

\* get(categoryRef) resolves in addItemToFirebase: set(child(newKey)) is issued
AddGetResolve(a) ==
    /\ adds[a].pc = "get" /\ adds[a].op = "add"
    /\ adds' = [adds EXCEPT ![a].pc = "write", ![a].key = NewKey(config)]
    /\ UNCHANGED <<config, searchValue, unhandled>>

\* get(categoryRef) resolves in deleteItemFromFirebase: remove(child(itemKey))
\* is issued when the item is found
DeleteGetResolve(a) ==
    /\ adds[a].pc = "get" /\ adds[a].op = "delete"
    /\ LET found == {k \in DOMAIN config : config[k] = adds[a].item}
       IN  IF found = {}
           THEN adds' = [adds EXCEPT ![a].pc = "done"]
           ELSE adds' = [adds EXCEPT ![a].pc = "write",
                            ![a].key = CHOOSE k \in found : \A j \in found : k <= j]
    /\ UNCHANGED <<config, searchValue, unhandled>>

\* get(categoryRef) rejects: neither function catches it
GetReject(a) ==
    /\ adds[a].pc = "get"
    /\ adds' = [adds EXCEPT ![a].pc = "done"]
    /\ unhandled' = unhandled \cup {[call |-> "get", op |-> adds[a].op, by |-> a]}
    /\ UNCHANGED <<config, searchValue>>

\* set(child(categoryRef, newKey), newItem) is applied
AddSetResolve(a) ==
    /\ adds[a].pc = "write" /\ adds[a].op = "add"
    /\ config' = [k \in DOMAIN config \cup {adds[a].key} |->
                    IF k = adds[a].key THEN adds[a].item ELSE config[k]]
    /\ adds' = [adds EXCEPT ![a].pc = "done"]
    /\ UNCHANGED <<searchValue, unhandled>>

\* remove(child(categoryRef, itemKey)) is applied
DeleteRemoveResolve(a) ==
    /\ adds[a].pc = "write" /\ adds[a].op = "delete"
    /\ config' = [k \in DOMAIN config \ {adds[a].key} |-> config[k]]
    /\ adds' = [adds EXCEPT ![a].pc = "done"]
    /\ UNCHANGED <<searchValue, unhandled>>

\* the set / remove rejects: the promise is neither awaited nor caught
WriteReject(a) ==
    /\ adds[a].pc = "write"
    /\ adds' = [adds EXCEPT ![a].pc = "done"]
    /\ unhandled' = unhandled \cup {[call |-> "write", op |-> adds[a].op, by |-> a]}
    /\ UNCHANGED <<config, searchValue>>

ConfigInit ==
    /\ config = (0 :> <<"a">>)
    /\ adds = [a \in AddIds |-> IdleAdd]
    /\ searchValue = <<>>
    /\ unhandled = {}

\* ------------------------------------------------------------------------
\* Worker control panel: auto-refresh
\* ------------------------------------------------------------------------
MaxCalls == 2       \* periodic refreshes per run
Steps == 3          \* clock ticks per timer period

\* setInterval(..., 30000)
refreshInterval == 30000

\* a cleanup that leaves the timer running
ClearIntervalSkipped(timer) == timer

\* clearInterval(interval)
ClearInterval(timer) == <<>>

\* the auto-refresh effect for the given flag: its cleanup clears the timer
\* of the previous run, then a new one is set while the flag is on
AutoRefreshEffect(flag) ==
    IF flag THEN Append(ClearInterval(interval), 0) ELSE ClearInterval(interval)

\* the checkbox: setAutoRefresh(e.target.checked), then the effect re-runs
SetAutoRefresh(checked) ==
    /\ panelMounted /\ autoRefresh # checked
    /\ autoRefresh' = checked
    /\ interval' = AutoRefreshEffect(checked)
    /\ UNCHANGED <<panelMounted, intervalCalls, healthCheck>>

\* the panel leaves the screen: the cleanup of the effect runs
PanelUnmount ==
    /\ panelMounted
    /\ panelMounted' = FALSE
    /\ interval' = ClearInterval(interval)
    /\ UNCHANGED <<autoRefresh, intervalCalls, healthCheck>>

\* the panel is constructed again: useState(false), no timer
PanelMount ==
    /\ ~panelMounted
    /\ panelMounted' = TRUE
    /\ autoRefresh' = FALSE
    /\ healthCheck' = Null
    /\ UNCHANGED <<interval, intervalCalls>>

\* time passes, up to the moment the timer is due
TimePasses ==
    /\ interval # <<>>
    /\ \A i \in DOMAIN interval : interval[i] < refreshInterval
    /\ interval' = [i \in DOMAIN interval |->
                       interval[i] + refreshInterval \div Steps]
    /\ UNCHANGED <<panelMounted, autoRefresh, intervalCalls, healthCheck>>

\* the callback of setInterval: fetchWorkerStatus(); runHealthChecks()
\* (ok: getWorkerStatus resolves; healthy: the outcome of testWorkerHealth)
IntervalCallback(ok, healthy) ==
    /\ \E i \in DOMAIN interval :
          /\ interval[i] >= refreshInterval
          /\ interval' = [interval EXCEPT ![i] = 0]
    /\ intervalCalls.fetchWorkerStatus < MaxCalls
    /\ intervalCalls' = [fetchWorkerStatus |-> intervalCalls.fetchWorkerStatus + 1,
                         runHealthChecks |-> intervalCalls.runHealthChecks + 1]
    /\ workerStatus' = IF ok THEN kv.worker_status ELSE "unknown"
    /\ aiStatus' = IF ok THEN kv.ai_status ELSE "unknown"
    /\ wcError' = IF ok THEN "" ELSE "Failed to fetch worker status"
    /\ healthCheck' = (IF healthy THEN "healthy" ELSE "unhealthy")
    /\ UNCHANGED <<panelMounted, autoRefresh, user, confirmDialog, updating, exec,
                   requests, kv, workerActivityLogs, clock>>

\* the Refresh Now button: fetchWorkerStatus(); runHealthChecks()
RefreshNow(ok, healthy) ==
    /\ panelMounted
    /\ workerStatus' = IF ok THEN kv.worker_status ELSE "unknown"
    /\ aiStatus' = IF ok THEN kv.ai_status ELSE "unknown"
    /\ wcError' = IF ok THEN "" ELSE "Failed to fetch worker status"
    /\ healthCheck' = (IF healthy THEN "healthy" ELSE "unhealthy")
    /\ UNCHANGED <<autoRefresh, interval, intervalCalls, panelMounted, user,
                   confirmDialog, updating, exec, requests, kv, workerActivityLogs,
                   clock>>

RefreshInit ==
    /\ panelMounted = TRUE
    /\ autoRefresh = FALSE
    /\ interval = <<>>
    /\ intervalCalls = [fetchWorkerStatus |-> 0, runHealthChecks |-> 0]
    /\ healthCheck = Null

\* ------------------------------------------------------------------------
\* AI-chat log table: useDebounce(value, 300) of the device and message fields
\* ------------------------------------------------------------------------
DebounceFields == {"deviceId", "userMessage"}

\* useDebounce(deviceId, 300), useDebounce(userMessage, 300)
delay == 300

\* a cleanup that leaves the pending timer running
ClearTimeoutSkipped(timers) == timers

\* clearTimeout(handler)
ClearTimeout(timers) == <<>>

\* the effect of useDebounce for a new value: the cleanup of the previous run,
\* then setTimeout(() => setDebouncedValue(value), delay)
DebounceEffect(timers, value) ==
    Append(ClearTimeout(timers), [value |-> value, elapsed |-> 0])

\* a key stroke in the device field: setDeviceId, the effect re-runs
TypeDeviceId(v) ==
    /\ SetDeviceId(v)
    /\ handler' = [handler EXCEPT !.deviceId = DebounceEffect(@, v)]

\* a key stroke in the message field: setUserMessage, the effect re-runs
TypeUserMessage(v) ==
    /\ SetUserMessage(v)
    /\ handler' = [handler EXCEPT !.userMessage = DebounceEffect(@, v)]

\* time passes, up to the moment a pending timer is due
DebounceTimePasses ==
    /\ \E f \in DebounceFields : handler[f] # <<>>
    /\ \A f \in DebounceFields :
          \A i \in DOMAIN handler[f] : handler[f][i].elapsed < delay
    /\ handler' = [f \in DebounceFields |->
                      [i \in DOMAIN handler[f] |->
                          [handler[f][i] EXCEPT !.elapsed = @ + delay \div Steps]]]
    /\ UNCHANGED tableVars

\* the timer of the device field fires: setDebouncedValue(value)
TimeoutDeviceId ==
    /\ handler.deviceId # <<>>
    /\ handler.deviceId[1].elapsed >= delay
    /\ debouncedDeviceId' = handler.deviceId[1].value
    /\ handler' = [handler EXCEPT !.deviceId = Tail(@)]
    /\ UNCHANGED <<fetchVars, deviceId, userMessage, debouncedUserMessage,
                   aiModel, minConfidence, maxConfidence, minProcessingTime,
                   maxProcessingTime, minTokens, maxTokens, timeRange, now,
                   sortConfig, currentPage>>

\* the timer of the message field fires: setDebouncedValue(value)
TimeoutUserMessage ==
    /\ handler.userMessage # <<>>
    /\ handler.userMessage[1].elapsed >= delay
    /\ debouncedUserMessage' = handler.userMessage[1].value
    /\ handler' = [handler EXCEPT !.userMessage = Tail(@)]
    /\ UNCHANGED <<fetchVars, deviceId, debouncedDeviceId, userMessage,
                   aiModel, minConfidence, maxConfidence, minProcessingTime,
                   maxProcessingTime, minTokens, maxTokens, timeRange, now,
                   sortConfig, currentPage>>

DebounceInit == handler = [f \in DebounceFields |-> <<>>]

\* ------------------------------------------------------------------------
\* AI-chat log table: bulk selection and export
\* ------------------------------------------------------------------------
MaxRows == 1        \* the cards of a page whose checkbox gets clicked

\* the header line of exportToCSV
Headers == <<"Date", "Device ID", "User Message", "AI Model", "Confidence",
             "Processing Time (ms)", "Tokens Used">>

\* the line exportToCSV writes for a record
CsvRow(log) ==
    <<log.date, DisplayName(log), log.userMessage, log.aiModel, log.confidence,
      log.processingTime, log.tokensUsed>>

\* exportToCSV(data, deviceMappings): the header, then a line per record
ExportToCSV(data) == <<Headers>> \o [i \in DOMAIN data |-> CsvRow(data[i])]

\* paginatedLogs.filter(log => selectedLogs.has(log.id))
SelectedLogsData(ids) == SelectSeq(paginatedLogs, LAMBDA log : log.id \in ids)

\* handleSelectLog(logId), from the checkbox of a card on the page
HandleSelectLog(logId) ==
    /\ resultsShown
    /\ \E i \in DOMAIN paginatedLogs : paginatedLogs[i].id = logId
    /\ selectedLogs' = IF logId \in selectedLogs THEN selectedLogs \ {logId}
                       ELSE selectedLogs \cup {logId}
    /\ UNCHANGED <<selectAll, csv>>

\* handleSelectAll, from the Select All checkbox
HandleSelectAll ==
    /\ resultsShown
    /\ selectedLogs' = IF selectAll THEN {}
                       ELSE {paginatedLogs[i].id : i \in DOMAIN paginatedLogs}
    /\ selectAll' = ~selectAll
    /\ UNCHANGED csv

\* handleBulkExport, from the Export Selected button (shown with a selection)
HandleBulkExport ==
    /\ resultsShown
    /\ selectedLogs # {}
    /\ csv' = ExportToCSV(SelectedLogsData(selectedLogs))
    /\ UNCHANGED <<selectedLogs, selectAll>>

SelectInit ==
    /\ selectedLogs = {}
    /\ selectAll = FALSE
    /\ csv = <<>>

\* ------------------------------------------------------------------------
\* Device management: save, search-blocking toggle, delete, bulk naming
\* ------------------------------------------------------------------------
MaxDevOps == 2      \* handler invocations per run
MaxSeen == 1        \* visits a device records in lastSeen per run

DevOpIds == 1..MaxDevOps

Device(name, named, blocked, seen) ==
    [deviceName |-> name, isNamed |-> named, searchBlocked |-> blocked,
     lastSeen |-> seen]
NoData == Device(<<>>, FALSE, FALSE, 0)

\* { deviceId, ...deviceRegistry[deviceId] }
DeviceInfo(d, data) ==
    [deviceId |-> d, deviceName |-> data.deviceName, isNamed |-> data.isNamed,
     searchBlocked |-> data.searchBlocked, lastSeen |-> data.lastSeen]

\* the edit form of handleSaveDevice and the bulk form of handleBulkSave
EditForms == {[deviceName |-> <<"b", " ">>, isNamed |-> TRUE, searchBlocked |-> TRUE]}
NoForm == [deviceName |-> <<>>, isNamed |-> FALSE, searchBlocked |-> FALSE]

IdleDevOp == [pc |-> "idle", kind |-> Null, form |-> NoForm, subs |-> <<>>]
FreeDevOp(o) ==
    devOps[o].pc = "idle" /\ \A g \in 1..(o - 1) : devOps[g].pc # "idle"

\* a call that has returned and whose reads and writes have all settled: its
\* locals are gone
Settled(op) ==
    IF op.pc \in {"done", "failed"}
       /\ \A d \in DOMAIN op.subs : op.subs[d].pc \in {"done", "failed"}
    THEN [IdleDevOp EXCEPT !.pc = op.pc]
    ELSE op

\* the catch blocks leave the error unset
DeviceErrorUnset(kind) == Null

\* the catch blocks: setError(...)
DeviceError(kind) ==
    CASE kind = "toggle" -> "Failed to update search blocking. Please try again."
      [] kind = "save" -> "Failed to update device. Please try again."
      [] kind = "delete" -> "Failed to delete device. Please try again."
      [] kind = "bulk" -> "Failed to update devices. Please try again."

LocalIndex(d) == CHOOSE i \in DOMAIN devices : devices[i].deviceId = d
Listed(d) == \E i \in DOMAIN devices : devices[i].deviceId = d

\* the record set(deviceRef, { ...currentData, <edited fields> }) writes
Written(kind, form, currentData) ==
    IF kind = "toggle"
    THEN [currentData EXCEPT !.searchBlocked = form.searchBlocked]
    ELSE [currentData EXCEPT !.deviceName = Trim(form.deviceName),
                             !.isNamed = form.isNamed,
                             !.searchBlocked = form.searchBlocked]

\* the setDevices(prev => ...) of a handler that got through
LocalUpdate(kind, form, targets, prev) ==
    CASE kind = "toggle" ->
            [i \in DOMAIN prev |->
                IF prev[i].deviceId \in targets
                THEN [prev[i] EXCEPT !.searchBlocked = form.searchBlocked]
                ELSE prev[i]]
      [] kind = "save" ->
            [i \in DOMAIN prev |->
                IF prev[i].deviceId \in targets
                THEN [prev[i] EXCEPT !.deviceName = Trim(form.deviceName),
                                     !.isNamed = form.isNamed,
                                     !.searchBlocked = form.searchBlocked]
                ELSE prev[i]]
      [] kind = "bulk" ->
            [i \in DOMAIN prev |->
                IF ~prev[i].isNamed
                THEN [prev[i] EXCEPT !.deviceName = Trim(form.deviceName),
                                     !.isNamed = form.isNamed,
                                     !.searchBlocked = form.searchBlocked]
                ELSE prev[i]]
      [] kind = "delete" ->
            SelectSeq(prev, LAMBDA device : device.deviceId \notin targets)

StartDevOp(o, kind, form, targets, firstCall) ==
    /\ FreeDevOp(o)
    /\ devOps' = [devOps EXCEPT ![o] =
                     [pc |-> "awaiting", kind |-> kind, form |-> form,
                      subs |-> [d \in targets |->
                                   [pc |-> firstCall, currentData |-> NoData]]]]
    /\ UNCHANGED <<deviceRegistry, devices, devError>>

\* handleToggleSearchBlocking(deviceId, currentStatus) up to its get
HandleToggleSearchBlocking(o, d) ==
    /\ Listed(d)
    /\ StartDevOp(o, "toggle",
                  [NoForm EXCEPT !.searchBlocked = ~devices[LocalIndex(d)].searchBlocked],
                  {d}, "get")

\* handleSaveDevice(deviceId) up to its get, with a non-empty name in the form
HandleSaveDevice(o, d, form) ==
    /\ Listed(d)
    /\ Trim(form.deviceName) # <<>>
    /\ StartDevOp(o, "save", form, {d}, "get")

\* handleDeleteDevice(deviceId, deviceName) confirmed, up to its remove
HandleDeleteDevice(o, d) ==
    /\ Listed(d)
    /\ StartDevOp(o, "delete", NoForm, {d}, "remove")

\* devices.filter(device => !device.isNamed)
unnamedDevices == {devices[i].deviceId : i \in {j \in DOMAIN devices : ~devices[j].isNamed}}

\* handleBulkSave confirmed, up to the gets of the unnamed devices
HandleBulkSave(o, form) ==
    /\ Trim(form.deviceName) # <<>>
    /\ unnamedDevices # {}
    /\ StartDevOp(o, "bulk", form, unnamedDevices, "get")

\* the state of a call after the read or write of device d has ended in pc:
\* when it was the last one awaited the call goes on (done), when it failed
\* the await throws (failed)
AfterSub(op, d, pc, data) ==
    LET subs == [op.subs EXCEPT ![d] = [pc |-> pc, currentData |-> data]]
        ended == IF op.pc # "awaiting" THEN op.pc
                 ELSE IF pc = "failed" THEN "failed"
                 ELSE IF \A k \in DOMAIN subs : subs[k].pc = "done" THEN "done"
                 ELSE "awaiting"
    IN  [op EXCEPT !.subs = subs, !.pc = ended]

\* get(deviceRef) resolves: set(deviceRef, ...) is issued when the record exists
DeviceGetResolve(o, d) ==
    /\ d \in DOMAIN devOps[o].subs /\ devOps[o].subs[d].pc = "get"
    /\ LET op == devOps[o]
           after == IF d \in DOMAIN deviceRegistry
                    THEN AfterSub(op, d, "set", deviceRegistry[d])
                    ELSE AfterSub(op, d, "done", NoData)
       IN  /\ devOps' = [devOps EXCEPT ![o] = Settled(after)]
           /\ devices' = IF op.pc = "awaiting" /\ after.pc = "done" /\ op.kind = "bulk"
                         THEN LocalUpdate(op.kind, op.form, DOMAIN op.subs, devices)
                         ELSE devices
    /\ UNCHANGED <<deviceRegistry, devError>>

\* set(deviceRef, ...) is applied; the handler that awaited it updates the list
DeviceSetResolve(o, d) ==
    /\ d \in DOMAIN devOps[o].subs /\ devOps[o].subs[d].pc = "set"
    /\ LET op == devOps[o]
           after == AfterSub(op, d, "done", NoData)
       IN  /\ deviceRegistry' =
                 [k \in DOMAIN deviceRegistry \cup {d} |->
                     IF k = d THEN Written(op.kind, op.form, op.subs[d].currentData)
                     ELSE deviceRegistry[k]]
           /\ devOps' = [devOps EXCEPT ![o] = Settled(after)]
           /\ devices' = IF op.pc = "awaiting" /\ after.pc = "done"
                         THEN LocalUpdate(op.kind, op.form, DOMAIN op.subs, devices)
                         ELSE devices
    /\ UNCHANGED devError

\* remove(deviceRef) is applied; the handler filters the device out of the list
DeviceRemoveResolve(o, d) ==
    /\ d \in DOMAIN devOps[o].subs /\ devOps[o].subs[d].pc = "remove"
    /\ LET op == devOps[o]
           after == AfterSub(op, d, "done", NoData)
       IN  /\ deviceRegistry' = [k \in DOMAIN deviceRegistry \ {d} |-> deviceRegistry[k]]
           /\ devOps' = [devOps EXCEPT ![o] = Settled(after)]
           /\ devices' = LocalUpdate(op.kind, op.form, DOMAIN op.subs, devices)
    /\ UNCHANGED devError

\* a get, set or remove rejects: the catch of the handler that awaited it
DeviceCallReject(o, d) ==
    /\ d \in DOMAIN devOps[o].subs
    /\ devOps[o].subs[d].pc \in {"get", "set", "remove"}
    /\ LET op == devOps[o]
           after == AfterSub(op, d, "failed", NoData)
       IN  /\ devOps' = [devOps EXCEPT ![o] = Settled(after)]
           /\ devError' = IF op.pc = "awaiting" THEN DeviceError(op.kind) ELSE devError
    /\ UNCHANGED <<deviceRegistry, devices>>

\* another client: the device itself records a visit in lastSeen
DeviceSeen(d) ==
    /\ d \in DOMAIN deviceRegistry
    /\ deviceRegistry[d].lastSeen < MaxSeen
    /\ deviceRegistry' = [deviceRegistry EXCEPT ![d].lastSeen = @ + 1]
    /\ UNCHANGED <<devices, devError, devOps>>

\* the registry at the start: device a is named, device B is not
InitialRegistry ==
    [d \in DeviceIds |-> Device(Registry[d], Registry[d] # <<>>, FALSE, 0)]

\* a registry of devices that registered and were never named
UnnamedRegistry == [d \in DeviceIds |-> Device(<<>>, FALSE, FALSE, 0)]

\* the state after loadDevices of the mount effect, over a given registry
DevicesLoaded(registry) ==
    /\ deviceRegistry = registry
    /\ devices = << DeviceInfo(<<"B">>, registry[<<"B">>]),
                    DeviceInfo(<<"a">>, registry[<<"a">>]) >>
    /\ devError = Null
    /\ devOps = [o \in DevOpIds |-> IdleDevOp]

DevicesInit == DevicesLoaded(InitialRegistry)

\* ------------------------------------------------------------------------
\* Routing and sign-in: App routes, ProtectedRoute, LoginPage, AuthProvider
\* ------------------------------------------------------------------------
MaxHistory == 3     \* history entries kept behind the current location

LoginPath == "/login"
ProtectedPaths == {"/", "/config", "/analytics"}
Paths == {LoginPath} \cup ProtectedPaths

\* the Google accounts that can sign in: the users of the workspace and one
\* account of another domain
Guest == "guest"
Accounts == Users \cup {Guest}
WorkspaceDomain == <<"@", "f", "e", "l", "i", "c", "e", ".", "e", "d", ".", "j", "p">>
\* user.email as text
EmailAddress(u) ==
    IF u = Guest THEN <<"g", "@", "x", ".", "j", "p">> ELSE <<u>> \o WorkspaceDomain

\* String.prototype.endsWith
EndsWith(s, suffix) ==
    /\ Len(suffix) <= Len(s)
    /\ SubSeq(s, Len(s) - Len(suffix) + 1, Len(s)) = suffix

\* user && user.email && user.email.endsWith('@felice.ed.jp')
InDomain(u) == u # Null /\ EndsWith(EmailAddress(u), WorkspaceDomain)

\* ProtectedRoute: user ? children : null
ProtectedRoute(u, children) == IF u # Null THEN children ELSE "nothing"

\* <Routes>: the element of the route matching the location
RouteElement(p, u) ==
    CASE p = LoginPath -> "LoginPage"
      [] p = "/" -> ProtectedRoute(u, "SearchLogsTable")
      [] p = "/config" -> ProtectedRoute(u, "ConfigPage")
      [] p = "/analytics" -> ProtectedRoute(u, "AnalyticsDashboard")

ProtectedPages == {"SearchLogsTable", "ConfigPage", "AnalyticsDashboard"}
rendered == RouteElement(path, user)

Location(p, h) == [path |-> p, history |-> h]
\* navigate(to): a new history entry
Navigate(loc, to) == Location(to, Append(loc.history, loc.path))

\* the effects of the route on screen: ProtectedRoute sends a visitor without
\* a user to /login, LoginPage sends a user of the domain to /
RouteEffects(loc, u) ==
    IF loc.path \in ProtectedPaths /\ u = Null THEN Navigate(loc, LoginPath)
    ELSE IF loc.path = LoginPath /\ InDomain(u) THEN Navigate(loc, "/")
    ELSE loc

\* the state of the worker panel, which routing leaves alone
panelVars == <<confirmDialog, updating, wcError, workerStatus, aiStatus, exec,
               requests, kv, workerActivityLogs, clock>>

GoTo(loc) ==
    /\ Len(loc.history) <= MaxHistory
    /\ path' = loc.path
    /\ history' = loc.history

\* a URL is entered or the page reloaded: the document loads with no user in
\* the context, the route renders and its effects run
OpenUrl(p) ==
    /\ GoTo(RouteEffects(Navigate(Location(path, history), p), Null))
    /\ user' = Null
    /\ login' = "idle"
    /\ UNCHANGED <<authUser, panelVars>>

\* onAuthStateChanged after the load: setUser(user) with the account Firebase
\* Auth kept signed in
AuthStateChanged ==
    /\ user = Null /\ authUser # Null
    /\ user' = authUser
    /\ GoTo(RouteEffects(Location(path, history), authUser))
    /\ UNCHANGED <<authUser, login, panelVars>>

\* a <Link> of a page on screen
FollowLink(p) ==
    /\ rendered \in ProtectedPages
    /\ p \in ProtectedPaths /\ p # path
    /\ GoTo(RouteEffects(Navigate(Location(path, history), p), user))
    /\ UNCHANGED <<user, authUser, login, panelVars>>

\* the Back button: the router shows the entry before the current one
GoBack ==
    /\ history # <<>>
    /\ GoTo(RouteEffects(Location(history[Len(history)],
                                  SubSeq(history, 1, Len(history) - 1)), user))
    /\ UNCHANGED <<user, authUser, login, panelVars>>

\* handleLogin up to await signInWithPopup(auth, provider)
HandleLogin ==
    /\ path = LoginPath /\ login = "idle"
    /\ login' = "popup"
    /\ UNCHANGED <<path, history, user, authUser, panelVars>>

\* signInWithPopup resolves with an account: Firebase Auth holds it signed in
\* and onAuthStateChanged sets it in the context; then handleLogin checks the
\* domain: setUser and navigate('/'), or throw and navigate('/login')
PopupResolve(account) ==
    /\ login = "popup"
    /\ authUser' = account
    /\ user' = account
    /\ login' = "idle"
    /\ LET seen == RouteEffects(Location(path, history), account)
           to == IF InDomain(account) THEN "/" ELSE LoginPath
       IN  GoTo(RouteEffects(Navigate(seen, to), account))
    /\ UNCHANGED panelVars

\* signInWithPopup rejects (the popup is closed): catch, navigate('/login')
PopupReject ==
    /\ login = "popup"
    /\ login' = "idle"
    /\ GoTo(RouteEffects(Navigate(Location(path, history), LoginPath), user))
    /\ UNCHANGED <<user, authUser, panelVars>>

\* LogoutButton: signOut(auth), onAuthStateChanged sets the user to null,
\* then navigate('/login')
HandleLogout ==
    /\ rendered \in ProtectedPages
    /\ authUser' = Null
    /\ user' = Null
    /\ GoTo(Navigate(RouteEffects(Location(path, history), Null), LoginPath))
    /\ UNCHANGED <<login, panelVars>>

\* the app opened at /login with nobody signed in
RouteInit ==
    /\ path = LoginPath
    /\ history = <<>>
    /\ authUser = Null
    /\ login = "idle"

ViewsInit == RefreshInit /\ DebounceInit /\ SelectInit /\ DevicesInit /\ RouteInit

\* ------------------------------------------------------------------------
\* Confidence classes: the badge of a log card, the dashboard's ranges
\* ------------------------------------------------------------------------
\* a badge that takes the thresholds themselves for the class below
GetConfidenceBadgeStrict(confidence) ==
    IF confidence > 7 THEN "High"
    ELSE IF confidence > 4 THEN "Medium"
    ELSE "Low"

\* getConfidenceBadge(confidence), confidence in tenths
getConfidenceBadge(confidence) ==
    IF confidence >= 7 THEN "High"
    ELSE IF confidence >= 4 THEN "Medium"
    ELSE "Low"

\* getConfidenceColor(confidence)
getConfidenceColor(confidence) ==
    IF confidence >= 7 THEN "bg-green-100 text-green-800"
    ELSE IF confidence >= 4 THEN "bg-yellow-100 text-yellow-800"
    ELSE "bg-red-100 text-red-800"

\* the range of confidenceDistribution
ConfidenceRange(confidence) ==
    IF confidence >= 7 THEN "High (0.7-1.0)"
    ELSE IF confidence >= 4 THEN "Medium (0.4-0.7)"
    ELSE "Low (0-0.4)"

\* ------------------------------------------------------------------------
\* Analytics dashboard: the aggregation of useMemo analytics
\* ------------------------------------------------------------------------
\* a value held by a counting object: a number n, or (text non-empty) the
\* string that + 1 made out of something that was not a number
Num(n) == [n |-> n, text |-> <<>>]
IsNumber(v) == v.text = <<>>

\* the properties every {} inherits that a lower-cased text can name
Constructor == <<"c", "o", "n", "s", "t", "r", "u", "c", "t", "o", "r">>
ObjectPrototype == {Constructor}
\* k in ({}): the key names an inherited property
Inherited(k) == \E p \in ObjectPrototype : Len(k) = Len(p) /\ k = p
ObjectFunction == [n |-> 0, text |-> <<"function Object() { [native code] }">>]

HasKey(acc, k) == \E j \in DOMAIN acc : acc[j].key = k
IndexOfKey(acc, k) == CHOOSE j \in DOMAIN acc : acc[j].key = k

\* (acc[k] || 0): own property, else inherited property, else 0
GetOrZero(acc, k) ==
    IF HasKey(acc, k) THEN acc[IndexOfKey(acc, k)].value
    ELSE IF Inherited(k) THEN ObjectFunction
    ELSE Num(0)

\* every record counts as the first of its key
PlusOneForgetful(v) == Num(1)

\* v + 1: addition on a number, concatenation on anything else
PlusOne(v) ==
    IF IsNumber(v) THEN Num(v.n + 1) ELSE [n |-> 0, text |-> Append(v.text, "1")]

\* acc[k] = v, keys kept in insertion order
SetKey(acc, k, v) ==
    IF HasKey(acc, k) THEN [acc EXCEPT ![IndexOfKey(acc, k)].value = v]
    ELSE Append(acc, [key |-> k, value |-> v])

RECURSIVE TallyFrom(_, _, _)
\* logs.reduce((acc, log) => { acc[k] = (acc[k] || 0) + 1; return acc }, {})
\* over the keys of the records, from position i on
TallyFrom(keys, i, acc) ==
    IF i > Len(keys) THEN acc
    ELSE TallyFrom(keys, i + 1,
                   SetKey(acc, keys[i], PlusOne(GetOrZero(acc, keys[i]))))

Tally(keys) == TallyFrom(keys, 1, <<>>)

\* a property key made of a label or a number: the text of one symbol
KeyText(x) == <<x>>

\* new Date(log.date).toISOString().split('T')[0]: the day of the record
IsoDay(log) == KeyText(log.date \div 24)
\* new Date(log.date).getHours()
GetHours(log) == KeyText(log.date % 24)

ProcessingTimeRange(time) ==
    IF time < 1000 THEN "<1s"
    ELSE IF time < 2000 THEN "1-2s"
    ELSE IF time < 3000 THEN "2-3s"
    ELSE IF time < 5000 THEN "3-5s"
    ELSE ">5s"

TokenRange(tokens) ==
    IF tokens < 200 THEN "<200"
    ELSE IF tokens < 500 THEN "200-500"
    ELSE IF tokens < 1000 THEN "500-1000"
    ELSE IF tokens < 2000 THEN "1000-2000"
    ELSE ">2000"

KeysOf(Key(_), s) == [i \in DOMAIN s |-> Key(s[i])]

QueryOf(log) == Trim(ToLowerCase(log.userMessage))
ModelOf(log) == log.aiModel
ConfidenceRangeOf(log) == KeyText(ConfidenceRange(log.confidence))
ProcessingTimeRangeOf(log) == KeyText(ProcessingTimeRange(log.processingTime))
TokenRangeOf(log) == KeyText(TokenRange(log.tokensUsed))

aiModelCounts == Tally(KeysOf(ModelOf, logs))
deviceCounts == Tally(KeysOf(DisplayName, logs))
dailyTrends == Tally(KeysOf(IsoDay, logs))
hourlyDistribution == Tally(KeysOf(GetHours, logs))
confidenceDistribution == Tally(KeysOf(ConfidenceRangeOf, logs))
processingTimeRanges == Tally(KeysOf(ProcessingTimeRangeOf, logs))
tokenRanges == Tally(KeysOf(TokenRangeOf, logs))
queryCounts(s) == Tally(KeysOf(QueryOf, s))

\* the comparator ([,a], [,b]) => b - a: NaN when a count is not a number
CompareCounts(x, y) ==
    IF IsNumber(x.value) /\ IsNumber(y.value) THEN y.value.n - x.value.n ELSE 0

\* Object.entries(counts).sort(([,a], [,b]) => b - a).slice(0, k)
TopEntries(counts, k) ==
    Slice(SortSeq(counts, LAMBDA x, y : CompareCounts(x, y) < 0), 0, k)

topQueries == TopEntries(queryCounts(logs), 10)

\* logs.filter(log => (deviceMappings[log.deviceId] || log.deviceId) === deviceName)
deviceLogs(deviceName) == SelectSeq(logs, LAMBDA log : DisplayName(log) = deviceName)

\* perDeviceAnalytics, before its sort by totalChats: name, totalChats, topQueries
perDeviceAnalytics ==
    [j \in DOMAIN deviceCounts |->
        LET deviceName == deviceCounts[j].key
        IN  [deviceName |-> deviceName,
             totalChats |-> Len(deviceLogs(deviceName)),
             topQueries |-> TopEntries(queryCounts(deviceLogs(deviceName)), 5)]]

\* if (logs.length === 0) return null
analyticsShown == Len(logs) # 0

\* chats for the dashboard: confidences on both sides of 0.4 and 0.7, times and
\* token counts on both sides of the range limits, messages that differ in case
\* and blanks only
AnalyticsEntries ==
    { Entry(<<1, 1>>, TRUE, 30, <<"a">>, <<"a">>, <<"a">>, 7, 999, 199),
      Entry(<<1, 2>>, TRUE, 31, <<"B">>, <<" ", "A", " ">>, <<"b">>, 4, 1000, 200),
      Entry(<<1, 3>>, TRUE, 47, <<"a">>, <<"b">>, <<"a">>, 3, 5000, 2000),
      Entry(<<1, 4>>, FALSE, 0, <<"B">>, Constructor, <<"b">>, 6, 2999, 1999) }

\* one-day stores holding up to MaxLen of these chats, in any order
AnalyticsStores ==
    {[d \in Days |-> IF d = 1 THEN s ELSE <<>>] :
        s \in {t \in UNION {[1..k -> AnalyticsEntries] : k \in 0..MaxLen} :
                  \A i, j \in DOMAIN t : i # j => t[i] # t[j]}}

\* a day of twelve chats with eleven different messages: the last two repeat
\* a message once, the others are asked once
ManyQueries ==
    << <<"a">>, <<"b">>, <<"a", "a">>, <<"a", "b">>, <<"b", "a">>, <<"b", "b">>,
       <<"a", "a", "a">>, <<"a", "a", "b">>, <<"a", "b", "a">>, <<"a", "b", "b">>,
       <<"b", "a", "a">>, <<"B", "A", "A", " ">> >>
QueryStore ==
    [d \in Days |->
        IF d = 1
        THEN [i \in DOMAIN ManyQueries |->
                Entry(<<1, i>>, TRUE, 24 + i, IF i % 2 = 0 THEN <<"a">> ELSE <<"B">>,
                      ManyQueries[i], <<"a">>, 5, 100 * i, 100 * i)]
        ELSE <<>>]

\* the dashboard once its fetchLogs has published day 1 of a store, while
\* loadDeviceMappings is pending
DashboardLoaded(s) == TableLoaded(s, 60, 1, 1, "pending")

\* ------------------------------------------------------------------------
\* Specifications
\* ------------------------------------------------------------------------
\* the AI-chat table over the quiet store: the range is stretched with the
\* to-date field, fetches overlap
FetchInit == TableInit(SmallStore, 60) /\ WorkerInit /\ ConfigInit /\ ViewsInit

FetchNext ==
    \/ Mount /\ UNCHANGED <<workerVars, configVars, viewVars>>
    \/ \E d \in Days : SetToDate(d) /\ UNCHANGED <<workerVars, configVars, viewVars>>
    \/ \E f \in FetchIds : HandleFilterClick(f) /\ UNCHANGED <<workerVars, configVars, viewVars>>
    \/ \E f \in FetchIds : HandleKeyPressEnter(f) /\ UNCHANGED <<workerVars, configVars, viewVars>>
    \/ \E f \in FetchIds, d \in Days :
          BucketResolve(f, d) /\ UNCHANGED <<workerVars, configVars, viewVars>>
    \/ \E f \in FetchIds, d \in Days :
          BucketReject(f, d) /\ UNCHANGED <<workerVars, configVars, viewVars>>
    \/ \E f \in FetchIds : FetchPublish(f) /\ UNCHANGED <<workerVars, configVars, viewVars>>

SpecFetch == FetchInit /\ [][FetchNext]_vars

\* ------------------------------------------------------------------------
\* Properties of fetchLogs
\* ------------------------------------------------------------------------
Range(s) == {s[i] : i \in 1..Len(s)}
RecordsOfDay(d) == Range(FormatDay(d, store[d]))
Completes(f) == fetch[f].pc = "awaiting" /\ fetch'[f].pc = "done"

\* C1: logs changes only when a fetchLogs call publishes, and a call publishes
\* only once every per-day read of its range has settled (resolved or
\* rejected): what it publishes is its whole formattedData, never the records
\* of only some of the buckets it is still reading.
C1_PublishAfterAllSettled ==
    [][/\ \A f \in FetchIds :
             Completes(f) =>
                /\ fetch[f].pending = {}
                /\ fetch[f].succeeded \cup fetch[f].failed
                      = DayRange(fetch[f].from, fetch[f].to)
                /\ Range(logs') = UNION {RecordsOfDay(d) : d \in fetch[f].succeeded}
       /\ logs' # logs => \E f \in FetchIds : Completes(f)]_vars

C1_Witness ==
    \E f \in FetchIds :
        /\ fetch[f].pc = "done" /\ fetch[f].failed = {}
        /\ Range(logs) = RecordsOfDay(1) \cup RecordsOfDay(2)
        /\ \E g \in FetchIds : fetch[g].pc = "awaiting" /\ fetch[g].pending # {}

\* C2: when per-day reads of a fetchLogs call fail, every failure is logged
\* with console.warn and the failed bucket contributes nothing; the call still
\* completes, publishes the records of every bucket that succeeded, sets no
\* error and returns loading to false.
C2_FailedBucketSkipped ==
    [][\A f \in FetchIds :
             Completes(f) =>
                /\ loading' = FALSE
                /\ error' = Null
                /\ fetch[f].failed \subseteq fetch[f].warned
                /\ fetch'[f].failed = fetch[f].failed
                /\ \A d \in fetch[f].succeeded : RecordsOfDay(d) \subseteq Range(logs')
                /\ \A d \in fetch[f].failed \ fetch[f].succeeded :
                      RecordsOfDay(d) \cap Range(logs') = {}]_vars

C2_Witness ==
    \E f \in FetchIds :
        /\ fetch[f].pc = "done"
        /\ fetch[f].failed = {2}
        /\ Range(logs) = RecordsOfDay(1)
        /\ ~loading

\* ------------------------------------------------------------------------
\* The config page: search box, Add button, delete clicks, database outcomes
\* ------------------------------------------------------------------------
ConfigNext ==
    \/ \E u \in Users : SignIn(u) /\ UNCHANGED <<tableVars, configVars, viewVars>>
    \/ SignOut /\ UNCHANGED <<tableVars, configVars, viewVars>>
    \/ \E v \in Items \cup {<<>>} : SetSearchValue(v) /\ UNCHANGED <<tableVars, workerVars, viewVars>>
    \/ \E a \in AddIds : AddItem(a) /\ UNCHANGED <<tableVars, workerVars, viewVars>>
    \/ \E a \in AddIds, k \in DOMAIN config :
          DeleteItem(a, k) /\ UNCHANGED <<tableVars, workerVars, viewVars>>
    \/ \E a \in AddIds : AddGetResolve(a) /\ UNCHANGED <<tableVars, workerVars, viewVars>>
    \/ \E a \in AddIds : DeleteGetResolve(a) /\ UNCHANGED <<tableVars, workerVars, viewVars>>
    \/ \E a \in AddIds : GetReject(a) /\ UNCHANGED <<tableVars, workerVars, viewVars>>
    \/ \E a \in AddIds : AddSetResolve(a) /\ UNCHANGED <<tableVars, workerVars, viewVars>>
    \/ \E a \in AddIds : DeleteRemoveResolve(a) /\ UNCHANGED <<tableVars, workerVars, viewVars>>
    \/ \E a \in AddIds : WriteReject(a) /\ UNCHANGED <<tableVars, workerVars, viewVars>>

SpecConfig == FetchInit /\ [][ConfigNext]_vars

\* ------------------------------------------------------------------------
\* Properties of error handling
\* ------------------------------------------------------------------------
\* C3: every database call a page issues is caught when it fails: on the config
\* page no failed get, set or remove of an add or a delete is left as an
\* unhandled rejection.
C3_EveryFailureCaught == unhandled = {}

\* ------------------------------------------------------------------------
\* The filter fields over a published list
\* ------------------------------------------------------------------------
FilterInit ==
    /\ \E from \in Days, to \in Days, pc \in {"done", "failed"} :
          from <= to /\ TableLoaded(SmallStore, 60, from, to, pc)
    /\ WorkerInit /\ ConfigInit /\ ViewsInit

MessageTexts == {<<>>, <<"b">>}
DeviceTexts == {<<>>, <<"a">>}
ConfidenceTexts == {<<>>, <<"0", ".", "4">>}
MinTimeTexts == {<<>>, <<"1", ".", "5">>}
MaxTimeTexts == {<<>>, <<"1">>}
MinTokenTexts == {<<>>, <<"2">>}
MaxTokenTexts == {<<>>, <<"1">>}

FilterNext ==
    \/ \E v \in DeviceTexts : SetDeviceId(v) /\ UNCHANGED <<workerVars, configVars, viewVars>>
    \/ DebounceDeviceId /\ UNCHANGED <<workerVars, configVars, viewVars>>
    \/ \E v \in MessageTexts : SetUserMessage(v) /\ UNCHANGED <<workerVars, configVars, viewVars>>
    \/ DebounceUserMessage /\ UNCHANGED <<workerVars, configVars, viewVars>>
    \/ \E v \in Models \cup {<<>>} : SetAiModel(v) /\ UNCHANGED <<workerVars, configVars, viewVars>>
    \/ \E v \in ConfidenceTexts :
          SetMinConfidence(v) /\ UNCHANGED <<workerVars, configVars, viewVars>>
    \/ \E v \in ConfidenceTexts :
          SetMaxConfidence(v) /\ UNCHANGED <<workerVars, configVars, viewVars>>
    \/ \E v \in MinTimeTexts :
          SetMinProcessingTime(v) /\ UNCHANGED <<workerVars, configVars, viewVars>>
    \/ \E v \in MaxTimeTexts :
          SetMaxProcessingTime(v) /\ UNCHANGED <<workerVars, configVars, viewVars>>
    \/ \E v \in MinTokenTexts : SetMinTokens(v) /\ UNCHANGED <<workerVars, configVars, viewVars>>
    \/ \E v \in MaxTokenTexts : SetMaxTokens(v) /\ UNCHANGED <<workerVars, configVars, viewVars>>
    \/ \E v \in {"", "24h"} : SetTimeRange(v) /\ UNCHANGED <<workerVars, configVars, viewVars>>

SpecFilter == FilterInit /\ [][FilterNext]_vars

\* ------------------------------------------------------------------------
\* The sort buttons over published lists of up to MaxLen records
\* ------------------------------------------------------------------------
SampleEntries == UNION {Range(SmallStore[d]) : d \in {1, 2}}

\* one-day stores holding up to MaxLen of the sample entries, in any order
SampleStores ==
    {[d \in Days |-> IF d = 1 THEN s ELSE <<>>] :
        s \in {t \in UNION {[1..k -> SampleEntries] : k \in 0..MaxLen} :
                  \A i, j \in DOMAIN t : i # j => t[i] # t[j]}}

SortInit ==
    /\ \E s \in SampleStores : TableLoaded(s, 60, 1, 1, "pending")
    /\ WorkerInit /\ ConfigInit /\ ViewsInit

SortKeys == {"date", "deviceId", "userMessage", "confidence", "processingTime"}

SortNext ==
    \/ \E key \in SortKeys : HandleSort(key) /\ UNCHANGED <<workerVars, configVars, viewVars>>
    \/ MappingsResolve /\ UNCHANGED <<workerVars, configVars, viewVars>>
    \/ MappingsReject /\ UNCHANGED <<workerVars, configVars, viewVars>>

SpecSort == SortInit /\ [][SortNext]_vars

\* ------------------------------------------------------------------------
\* Properties of filtering and sorting
\* ------------------------------------------------------------------------
\* the number a number field holds (valueAsNumber), in tenths
ValueAsNumber(text) == ParseFloat(text).val

\* the record meets every active filter, each bound taken at the value typed
Satisfies(l) ==
    /\ debouncedDeviceId # <<>> =>
          Includes(ToLowerCase(DisplayName(l)), ToLowerCase(debouncedDeviceId))
    /\ debouncedUserMessage # <<>> =>
          Includes(ToLowerCase(l.userMessage), ToLowerCase(debouncedUserMessage))
    /\ aiModel # <<>> => l.aiModel = aiModel
    /\ minConfidence # <<>> => l.confidence >= ValueAsNumber(minConfidence)
    /\ maxConfidence # <<>> => l.confidence <= ValueAsNumber(maxConfidence)
    /\ minProcessingTime # <<>> =>
          10 * l.processingTime >= ValueAsNumber(minProcessingTime)
    /\ maxProcessingTime # <<>> =>
          10 * l.processingTime <= ValueAsNumber(maxProcessingTime)
    /\ minTokens # <<>> => 10 * l.tokensUsed >= ValueAsNumber(minTokens)
    /\ maxTokens # <<>> => 10 * l.tokensUsed <= ValueAsNumber(maxTokens)
    /\ HasTimeRange(timeRange) => l.date >= Cutoff(timeRange)

\* C4: the visible list is exactly the fetched records that satisfy every
\* active filter, in their fetched order: none that fails a filter is shown,
\* none that satisfies them all is hidden.
C4_VisibleIffSatisfies == filteredLogs = SelectSeq(logs, Satisfies)

\* the order of two records under the selected key, ascending
KeyOrder(a, b) ==
    CASE sortConfig.key = "date" -> a.date - b.date
      [] sortConfig.key = "deviceId" -> LocaleCompare(DisplayName(a), DisplayName(b))
      [] sortConfig.key = "userMessage" -> LocaleCompare(a.userMessage, b.userMessage)
      [] sortConfig.key = "confidence" -> a.confidence - b.confidence
      [] sortConfig.key = "processingTime" -> a.processingTime - b.processingTime

IndexIn(s, x) == CHOOSE i \in DOMAIN s : s[i] = x

\* C5: sortedLogs holds exactly the records of filteredLogs, ordered by the
\* selected key in the selected direction, and two records with equal key
\* stand in the order they had in filteredLogs, ascending and descending.
C5_SortedStablePermutation ==
    /\ Len(sortedLogs) = Len(filteredLogs)
    /\ Range(sortedLogs) = Range(filteredLogs)
    /\ \A i, j \in DOMAIN sortedLogs :
          i < j =>
             /\ sortConfig.direction = "asc" => KeyOrder(sortedLogs[i], sortedLogs[j]) <= 0
             /\ sortConfig.direction = "desc" => KeyOrder(sortedLogs[i], sortedLogs[j]) >= 0
             /\ KeyOrder(sortedLogs[i], sortedLogs[j]) = 0 =>
                   IndexIn(filteredLogs, sortedLogs[i]) < IndexIn(filteredLogs, sortedLogs[j])

C5_Witness ==
    /\ sortConfig = [key |-> "confidence", direction |-> "desc"]
    /\ Len(sortedLogs) = 3
    /\ sortedLogs # filteredLogs
    /\ \E i \in 1..2 : KeyOrder(sortedLogs[i], sortedLogs[i + 1]) = 0

\* ------------------------------------------------------------------------
\* The table over the busy store: filter edits, sorting, paging, refetching
\* ------------------------------------------------------------------------
BusyInit ==
    /\ TableLoaded(BigStore, 60, 1, MaxDay, "done")
    /\ WorkerInit /\ ConfigInit /\ ViewsInit

PagedSortKeys == {"date", "confidence"}

TableNext ==
    \/ \E v \in Models \cup {<<>>} : SetAiModel(v) /\ UNCHANGED <<workerVars, configVars, viewVars>>
    \/ \E key \in PagedSortKeys : HandleSort(key) /\ UNCHANGED <<workerVars, configVars, viewVars>>
    \/ PrevPage /\ UNCHANGED <<workerVars, configVars, viewVars>>
    \/ NextPage /\ UNCHANGED <<workerVars, configVars, viewVars>>
    \/ \E pageNum \in 1..(MaxDay + 1) :
          GoToPage(pageNum) /\ UNCHANGED <<workerVars, configVars, viewVars>>
    \/ \E d \in Days : SetFromDate(d) /\ UNCHANGED <<workerVars, configVars, viewVars>>
    \/ \E f \in FetchIds : HandleFilterClick(f) /\ UNCHANGED <<workerVars, configVars, viewVars>>
    \/ \E f \in FetchIds, d \in Days :
          BucketResolve(f, d) /\ UNCHANGED <<workerVars, configVars, viewVars>>
    \/ \E f \in FetchIds, d \in Days :
          BucketReject(f, d) /\ UNCHANGED <<workerVars, configVars, viewVars>>
    \/ \E f \in FetchIds : FetchPublish(f) /\ UNCHANGED <<workerVars, configVars, viewVars>>

SpecTable == BusyInit /\ [][TableNext]_vars

\* ------------------------------------------------------------------------
\* Properties of pagination
\* ------------------------------------------------------------------------
\* page p of the sorted list
PageOf(p) == Slice(sortedLogs, (p - 1) * itemsPerPage, p * itemsPerPage)

RECURSIVE ConcatPages(_)
ConcatPages(p) == IF p = 0 THEN <<>> ELSE ConcatPages(p - 1) \o PageOf(p)

\* C6: totalPages is ceil(n / 50), pages 1..totalPages are consecutive slices
\* that concatenate to sortedLogs, and whenever the pagination bar is on screen
\* its "Showing X to Y of N" figures are the index range of the records on the
\* displayed page.
C6_PaginationConsistent ==
    /\ totalPages * itemsPerPage >= Len(sortedLogs)
    /\ (totalPages - 1) * itemsPerPage < Len(sortedLogs) \/ Len(sortedLogs) = 0
    /\ ConcatPages(totalPages) = sortedLogs
    /\ \A p \in 1..totalPages : Len(PageOf(p)) > 0
    /\ paginationShown =>
          /\ showingOf = Len(sortedLogs)
          /\ Len(paginatedLogs) = showingTo - showingFrom + 1
          /\ \A i \in DOMAIN paginatedLogs :
                paginatedLogs[i] = sortedLogs[showingFrom + i - 1]

\* C7: currentPage stays within 1..max(1, totalPages), so a non-empty sorted
\* list never shows an empty page.
C7_CurrentPageInRange ==
    /\ currentPage >= 1
    /\ currentPage <= (IF totalPages > 1 THEN totalPages ELSE 1)
    /\ Len(sortedLogs) > 0 => Len(paginatedLogs) > 0

\* ------------------------------------------------------------------------
\* The worker control panel: sign-in, buttons, dialog, executeAction steps
\* ------------------------------------------------------------------------
WorkerNext ==
    \/ \E u \in Operators : SignIn(u) /\ UNCHANGED <<tableVars, configVars, viewVars>>
    \/ SignOut /\ UNCHANGED <<tableVars, configVars, viewVars>>
    \/ FetchWorkerStatus /\ UNCHANGED <<tableVars, configVars, viewVars>>
    \/ \E newStatus \in {"on", "off"} :
          HandleWorkerToggle(newStatus) /\ UNCHANGED <<tableVars, configVars, viewVars>>
    \/ \E newStatus \in {"on", "off"} :
          HandleAIToggle(newStatus) /\ UNCHANGED <<tableVars, configVars, viewVars>>
    \/ HandleBulkEnable /\ UNCHANGED <<tableVars, configVars, viewVars>>
    \/ HandleBulkDisable /\ UNCHANGED <<tableVars, configVars, viewVars>>
    \/ CancelAction /\ UNCHANGED <<tableVars, configVars, viewVars>>
    \/ \E e \in ExecIds : ExecuteAction(e) /\ UNCHANGED <<tableVars, configVars, viewVars>>
    \/ ExecuteActionNoUser /\ UNCHANGED <<tableVars, configVars, viewVars>>
    \/ \E e \in ExecIds : TokenResolve(e) /\ UNCHANGED <<tableVars, configVars, viewVars>>
    \/ \E e \in ExecIds : TokenReject(e) /\ UNCHANGED <<tableVars, configVars, viewVars>>
    \/ \E e \in ExecIds : PostAccept(e) /\ UNCHANGED <<tableVars, configVars, viewVars>>
    \/ \E e \in ExecIds : PostFail(e) /\ UNCHANGED <<tableVars, configVars, viewVars>>
    \/ \E e \in ExecIds : PushResolve(e) /\ UNCHANGED <<tableVars, configVars, viewVars>>
    \/ \E e \in ExecIds : PushReject(e) /\ UNCHANGED <<tableVars, configVars, viewVars>>
    \/ \E e \in ExecIds : RefreshResolve(e) /\ UNCHANGED <<tableVars, configVars, viewVars>>
    \/ \E e \in ExecIds : RefreshReject(e) /\ UNCHANGED <<tableVars, configVars, viewVars>>

SpecWorker == FetchInit /\ [][WorkerNext]_vars

\* ------------------------------------------------------------------------
\* Properties of the worker control panel
\* ------------------------------------------------------------------------
\* the requests a step issues
Issued == requests' \ requests

\* a step in which executeAction call e gets past its guard
Starts(e) == exec[e].pc = "idle" /\ exec'[e].pc # "idle"

\* C8 as stated: a POST is issued only while a user is signed in, and it
\* carries the ID token of the user signed in at that moment.
C8_PostOnlyWhileSignedIn ==
    [][\A r \in Issued :
          user # Null /\ r.authorization = <<"Bearer", IdToken(user)>>]_vars

\* C8, amended: a POST is issued only by an executeAction call that was
\* confirmed while a user was signed in, and it carries the ID token of that
\* user, whoever is signed in when it goes out; with nobody signed in no call
\* gets past the guard, so nothing is sent.
C8_PostCarriesConfirmingUsersToken ==
    [][/\ \A r \in Issued :
             /\ exec[r.exec].pc = "token"
             /\ exec[r.exec].user \in Users
             /\ r.authorization = <<"Bearer", IdToken(exec[r.exec].user)>>
       /\ \A e \in ExecIds :
             Starts(e) => user \in Users /\ exec'[e].user = user
       /\ \A e \in ExecIds :
             (exec[e].pc = "token" /\ exec'[e].pc = "token") =>
                exec'[e].user = exec[e].user]_vars

C8_Witness ==
    /\ user = Null
    /\ \E r \in requests : r.authorization = <<"Bearer", IdToken("u1")>>

\* C9: every status change the worker accepted is followed by one entry in
\* workerActivityLogs with a timestamp and the user id, email and action of
\* the call: a call never leaves the push step without its entry appended.
C9_AcceptedChangeLogged ==
    [][\A e \in ExecIds :
          (exec[e].pc = "pushing" /\ exec'[e].pc # "pushing") =>
             /\ Len(workerActivityLogs') = Len(workerActivityLogs) + 1
             /\ LET entry == workerActivityLogs'[Len(workerActivityLogs')]
                IN  /\ entry.userId = Uid(exec[e].user)
                    /\ entry.userEmail = Email(exec[e].user)
                    /\ entry.action = exec[e].action
                    /\ entry.timestamp = clock]_vars

WorkerOnly == {"worker_enabled", "worker_disabled"}
AIOnly == {"ai_enabled", "ai_disabled"}
Enabling == {"worker_enabled", "ai_enabled", "bulk_enable"}

\* C10: a worker-only action sends only worker_status, an AI-only action only
\* ai_status, a bulk action both with the same value; when the worker applies
\* a single-service update the other service's status stays as it was.
C10_ServicesIndependent ==
    [][/\ \A r \in Issued :
             LET action == exec[r.exec].action
                 value == IF action \in Enabling THEN "on" ELSE "off"
             IN  /\ action \in WorkerOnly =>
                       r.body = [worker_status |-> value, ai_status |-> Absent]
                 /\ action \in AIOnly =>
                       r.body = [worker_status |-> Absent, ai_status |-> value]
                 /\ action \notin WorkerOnly \cup AIOnly =>
                       r.body = [worker_status |-> value, ai_status |-> value]
       /\ \A e \in ExecIds :
             (exec[e].pc = "posting" /\ exec'[e].pc = "pushing") =>
                /\ exec[e].action \in WorkerOnly => kv'.ai_status = kv.ai_status
                /\ exec[e].action \in AIOnly =>
                      kv'.worker_status = kv.worker_status]_vars

C10_Witness ==
    \E e \in ExecIds :
        /\ exec[e].pc = "pushing" /\ exec[e].action = "ai_enabled"
        /\ kv = [worker_status |-> "on", ai_status |-> "on"]

\* ------------------------------------------------------------------------
\* The auto-refresh checkbox, the timer and the clock
\* ------------------------------------------------------------------------
RefreshNext ==
    \/ \E checked \in BOOLEAN :
          SetAutoRefresh(checked) /\ UNCHANGED <<tableVars, workerVars, configVars, exceptRefresh>>
    \/ PanelUnmount /\ UNCHANGED <<tableVars, workerVars, configVars, exceptRefresh>>
    \/ PanelMount /\ UNCHANGED <<tableVars, workerVars, configVars, exceptRefresh>>
    \/ TimePasses /\ UNCHANGED <<tableVars, workerVars, configVars, exceptRefresh>>
    \/ \E ok \in BOOLEAN, healthy \in BOOLEAN :
          IntervalCallback(ok, healthy) /\ UNCHANGED <<tableVars, configVars, exceptRefresh>>
    \/ \E ok \in BOOLEAN, healthy \in BOOLEAN :
          RefreshNow(ok, healthy) /\ UNCHANGED <<tableVars, configVars, exceptRefresh>>

SpecRefresh == FetchInit /\ [][RefreshNext]_vars

\* a step in which the interval callback runs
PeriodicRefresh == intervalCalls' # intervalCalls

\* C11: a timer runs exactly while the panel is mounted with auto-refresh on;
\* a periodic refresh fires only then, 30 seconds after the timer was set or
\* last fired, and calls fetchWorkerStatus and runHealthChecks once each; with
\* auto-refresh off or the panel unmounted there is no timer and none fires.
C11_PeriodicRefreshWhileEnabled ==
    [][/\ Len(interval') = (IF autoRefresh' /\ panelMounted' THEN 1 ELSE 0)
       /\ \A i \in DOMAIN interval' : interval'[i] <= refreshInterval
       /\ PeriodicRefresh =>
             /\ autoRefresh /\ panelMounted
             /\ interval = <<refreshInterval>>
             /\ interval' = <<0>>
             /\ intervalCalls'.fetchWorkerStatus = intervalCalls.fetchWorkerStatus + 1
             /\ intervalCalls'.runHealthChecks = intervalCalls.runHealthChecks + 1
             /\ healthCheck' # Null]_vars

C11_Witness ==
    /\ intervalCalls.fetchWorkerStatus = 2
    /\ ~autoRefresh /\ panelMounted
    /\ interval = <<>>
    /\ workerStatus = "on"

\* ------------------------------------------------------------------------
\* Typing into the debounced fields while the clock runs
\* ------------------------------------------------------------------------
DebounceTexts == {<<>>, <<"a">>, <<"a", "b">>}

DebounceInitial ==
    /\ TableLoaded(SmallStore, 60, 1, 1, "done")
    /\ WorkerInit /\ ConfigInit /\ ViewsInit

TypeNext ==
    \/ \E v \in DebounceTexts :
          TypeDeviceId(v) /\ UNCHANGED <<workerVars, configVars, exceptDebounce>>
    \/ \E v \in DebounceTexts :
          TypeUserMessage(v) /\ UNCHANGED <<workerVars, configVars, exceptDebounce>>

TimerNext ==
    \/ DebounceTimePasses /\ UNCHANGED <<workerVars, configVars, exceptDebounce>>
    \/ TimeoutDeviceId /\ UNCHANGED <<workerVars, configVars, exceptDebounce>>
    \/ TimeoutUserMessage /\ UNCHANGED <<workerVars, configVars, exceptDebounce>>

DebounceNext == TypeNext \/ TimerNext

\* the clock runs and due timers fire
SpecDebounce ==
    /\ DebounceInitial /\ [][DebounceNext]_vars
    /\ WF_vars(DebounceTimePasses /\ UNCHANGED <<workerVars, configVars, exceptDebounce>>)
    /\ WF_vars(TimeoutDeviceId /\ UNCHANGED <<workerVars, configVars, exceptDebounce>>)
    /\ WF_vars(TimeoutUserMessage /\ UNCHANGED <<workerVars, configVars, exceptDebounce>>)

\* the one timer pending for the input, run for the whole delay
FullDelay(input) == <<[value |-> input, elapsed |-> delay]>>

\* C12: a debounced value changes only when the timer set at the last change
\* of its input has run the full 300 ms with the input unchanged, and then it
\* becomes the input (a value replaced within the delay has had its timer
\* cancelled, so it is never emitted); once the input stops changing, the
\* debounced value eventually equals it and stays so.
C12_DebouncedAfterFullDelay ==
    /\ [][/\ debouncedDeviceId' # debouncedDeviceId =>
                /\ handler.deviceId = FullDelay(deviceId)
                /\ debouncedDeviceId' = deviceId /\ deviceId' = deviceId
          /\ debouncedUserMessage' # debouncedUserMessage =>
                /\ handler.userMessage = FullDelay(userMessage)
                /\ debouncedUserMessage' = userMessage
                /\ userMessage' = userMessage
          /\ deviceId' # deviceId =>
                handler'.deviceId = <<[value |-> deviceId', elapsed |-> 0]>>
          /\ userMessage' # userMessage =>
                handler'.userMessage = <<[value |-> userMessage', elapsed |-> 0]>>]_vars
    /\ \A v \in DebounceTexts :
          /\ <>[](deviceId = v) => <>[](debouncedDeviceId = v)
          /\ <>[](userMessage = v) => <>[](debouncedUserMessage = v)

C12_Witness ==
    /\ deviceId = <<"a", "b">> /\ debouncedDeviceId = <<"a", "b">>
    /\ handler.deviceId = <<>>
    /\ userMessage = <<"a">> /\ debouncedUserMessage = <<>>
    /\ handler.userMessage = <<[value |-> <<"a">>, elapsed |-> 200]>>

\* ------------------------------------------------------------------------
\* Selecting cards, Select All, paging and Export Selected over the busy store
\* ------------------------------------------------------------------------
SelectNext ==
    \/ \E i \in 1..MaxRows :
          /\ i <= Len(paginatedLogs)
          /\ HandleSelectLog(paginatedLogs[i].id)
          /\ UNCHANGED <<tableVars, workerVars, configVars, exceptSelect>>
    \/ HandleSelectAll
          /\ UNCHANGED <<tableVars, workerVars, configVars, exceptSelect>>
    \/ HandleBulkExport
          /\ UNCHANGED <<tableVars, workerVars, configVars, exceptSelect>>
    \/ PrevPage /\ UNCHANGED <<workerVars, configVars, viewVars>>
    \/ NextPage /\ UNCHANGED <<workerVars, configVars, viewVars>>

\* one busy day: two pages
SelectInitial ==
    /\ TableLoaded(BigStore, 60, 1, 1, "done")
    /\ WorkerInit /\ ConfigInit /\ ViewsInit

SpecSelect == SelectInitial /\ [][SelectNext]_vars

\* C13: the records written by Export Selected are exactly the logs whose ids
\* are in selectedLogs, as many as the "N selected" label counts.
C13_ExportEqualsSelection ==
    [][csv' # csv =>
          /\ Range(Tail(csv')) = {CsvRow(logs[i]) : i \in {j \in DOMAIN logs :
                                                            logs[j].id \in selectedLogs}}
          /\ Len(Tail(csv')) = Cardinality(selectedLogs)]_vars

\* ------------------------------------------------------------------------
\* The analytics dashboard over sample chats
\* ------------------------------------------------------------------------
AnalyticsInit ==
    /\ \E s \in AnalyticsStores \cup {QueryStore} : DashboardLoaded(s)
    /\ WorkerInit /\ ConfigInit /\ ViewsInit

AnalyticsNext ==
    \/ MappingsResolve /\ UNCHANGED <<workerVars, configVars, viewVars>>
    \/ MappingsReject /\ UNCHANGED <<workerVars, configVars, viewVars>>

SpecAnalytics == AnalyticsInit /\ [][AnalyticsNext]_vars

\* the number a counting object holds under a key (0 when the key is absent)
CountOf(counts, k) ==
    IF HasKey(counts, k) THEN counts[IndexOfKey(counts, k)].value ELSE Num(0)

\* the number of records of a list whose key is k
Occurrences(keys, k) == Cardinality({i \in DOMAIN keys : keys[i] = k})

\* C14: every confidence value falls in exactly one class, High from 0.7 up,
\* Medium from 0.4 up to 0.7, Low below 0.4, and the badge and colour of a log
\* card and the range of the dashboard's confidence distribution name the
\* same class; the distribution counts under each range the logs whose badge
\* is that class.
C14_ConfidenceClassesAgree ==
    /\ \A i \in DOMAIN logs :
          LET c == logs[i].confidence
              class == IF c >= 7 THEN "High" ELSE IF c >= 4 THEN "Medium" ELSE "Low"
          IN  /\ getConfidenceBadge(c) = class
              /\ getConfidenceColor(c) =
                    (CASE class = "High" -> "bg-green-100 text-green-800"
                       [] class = "Medium" -> "bg-yellow-100 text-yellow-800"
                       [] class = "Low" -> "bg-red-100 text-red-800")
              /\ ConfidenceRange(c) =
                    (CASE class = "High" -> "High (0.7-1.0)"
                       [] class = "Medium" -> "Medium (0.4-0.7)"
                       [] class = "Low" -> "Low (0-0.4)")
    /\ \A range \in {"High (0.7-1.0)", "Medium (0.4-0.7)", "Low (0-0.4)"} :
          CountOf(confidenceDistribution, KeyText(range)) =
             Num(Cardinality({i \in DOMAIN logs :
                    range = (CASE getConfidenceBadge(logs[i].confidence) = "High"
                                    -> "High (0.7-1.0)"
                               [] getConfidenceBadge(logs[i].confidence) = "Medium"
                                    -> "Medium (0.4-0.7)"
                               [] getConfidenceBadge(logs[i].confidence) = "Low"
                                    -> "Low (0-0.4)")}))

C14_Witness ==
    /\ {logs[i].confidence : i \in DOMAIN logs} = {3, 4, 7}
    /\ CountOf(confidenceDistribution, KeyText("Medium (0.4-0.7)")) = Num(1)
    /\ mappingsPc = "done"

RECURSIVE SumCounts(_)
\* the sum of the numbers a counting object holds
SumCounts(counts) ==
    IF counts = <<>> THEN 0 ELSE Head(counts).value.n + SumCounts(Tail(counts))

RECURSIVE SumTotalChats(_)
SumTotalChats(list) ==
    IF list = <<>> THEN 0
    ELSE Head(list).totalChats + SumTotalChats(Tail(list))

\* the counting object holds, under every key, the number of records with
\* that key, and nothing else
CountsOnce(counts, keys) ==
    /\ \A j \in DOMAIN counts :
          counts[j].value = Num(Occurrences(keys, counts[j].key))
    /\ \A i \in DOMAIN keys : HasKey(counts, keys[i])
    /\ \A i, j \in DOMAIN counts : i # j => counts[i].key # counts[j].key
    /\ SumCounts(counts) = Len(keys)

TopOf(top, s, k) ==
    LET queries == KeysOf(QueryOf, s)
        listed == {top[j].key : j \in DOMAIN top}
    IN  /\ Len(top) <= k
        /\ \A j \in DOMAIN top :
              /\ \E i \in DOMAIN queries : queries[i] = top[j].key
              /\ top[j].value = Num(Occurrences(queries, top[j].key))
        /\ \A i, j \in DOMAIN top : i < j => top[i].value.n >= top[j].value.n
        /\ \A i, j \in DOMAIN top : i # j => top[i].key # top[j].key
        /\ \A i \in DOMAIN queries :
              queries[i] \notin listed =>
                 /\ Len(top) = k
                 /\ \A j \in DOMAIN top :
                       Occurrences(queries, queries[i]) <= top[j].value.n

\* C16: topQueries holds at most 10 entries and a device's topQueries at most
\* 5, in non-increasing order of count; the counts are the true numbers of
\* occurrences of the lower-cased, trimmed query text, and no query left out
\* was asked more often than a query in the list.
C16_TopQueriesTrueCounts ==
    analyticsShown =>
        /\ TopOf(topQueries, logs, 10)
        /\ \A j \in DOMAIN perDeviceAnalytics :
              TopOf(perDeviceAnalytics[j].topQueries,
                    deviceLogs(perDeviceAnalytics[j].deviceName), 5)

\* ------------------------------------------------------------------------
\* The device manager and the devices themselves writing to the registry
\* ------------------------------------------------------------------------
otherThanDevices == <<tableVars, workerVars, configVars, exceptDevices>>

DevicesNext ==
    \/ \E o \in DevOpIds, d \in DeviceIds :
          HandleToggleSearchBlocking(o, d) /\ UNCHANGED otherThanDevices
    \/ \E o \in DevOpIds, d \in DeviceIds, form \in EditForms :
          HandleSaveDevice(o, d, form) /\ UNCHANGED otherThanDevices
    \/ \E o \in DevOpIds, d \in DeviceIds :
          HandleDeleteDevice(o, d) /\ UNCHANGED otherThanDevices
    \/ \E o \in DevOpIds, form \in EditForms :
          HandleBulkSave(o, form) /\ UNCHANGED otherThanDevices
    \/ \E o \in DevOpIds, d \in DeviceIds :
          DeviceGetResolve(o, d) /\ UNCHANGED otherThanDevices
    \/ \E o \in DevOpIds, d \in DeviceIds :
          DeviceSetResolve(o, d) /\ UNCHANGED otherThanDevices
    \/ \E o \in DevOpIds, d \in DeviceIds :
          DeviceRemoveResolve(o, d) /\ UNCHANGED otherThanDevices
    \/ \E o \in DevOpIds, d \in DeviceIds :
          DeviceCallReject(o, d) /\ UNCHANGED otherThanDevices
    \/ \E d \in DeviceIds : DeviceSeen(d) /\ UNCHANGED otherThanDevices

SpecDevices == FetchInit /\ [][DevicesNext]_vars

\* a step in which the set of call o for device d is applied
Writes(o, d) ==
    /\ d \in DOMAIN devOps[o].subs
    /\ devOps[o].subs[d].pc = "set"
    /\ deviceRegistry' # deviceRegistry \/ devOps'[o] # devOps[o]
    /\ devOps'[o] = Settled(AfterSub(devOps[o], d, "done", NoData))

\* C17: when the write of a search-blocking toggle or of a save is applied,
\* every field of the device's record other than the edited ones keeps the
\* value the store held at that moment, and no other record changes.
C17_OnlyEditedFieldsWritten ==
    [][\A o \in DevOpIds, d \in DeviceIds :
          (Writes(o, d) /\ devOps[o].kind \in {"toggle", "save"}) =>
             /\ d \in DOMAIN deviceRegistry =>
                   /\ deviceRegistry'[d].lastSeen = deviceRegistry[d].lastSeen
                   /\ devOps[o].kind = "toggle" =>
                         /\ deviceRegistry'[d].deviceName = deviceRegistry[d].deviceName
                         /\ deviceRegistry'[d].isNamed = deviceRegistry[d].isNamed
             /\ \A k \in DeviceIds \ {d} :
                   /\ (k \in DOMAIN deviceRegistry') = (k \in DOMAIN deviceRegistry)
                   /\ k \in DOMAIN deviceRegistry => deviceRegistry'[k] = deviceRegistry[k]]_vars

\* a step in which the await of call o throws and its catch block runs
Fails(o) == devOps[o].pc = "awaiting" /\ devOps'[o].pc = "failed"

\* C18: when a read or write of a save, a search-blocking toggle, a delete
\* or a bulk naming fails, the local device list is left as it was and the
\* error message of that handler is set; the list changes only when a
\* handler gets through.
C18_FailedWriteLeavesListAndSetsError ==
    [][/\ \A o \in DevOpIds :
             Fails(o) => /\ devices' = devices
                         /\ devError' # Null
                         /\ devError' = DeviceError(devOps[o].kind)
       /\ devices' # devices =>
             \E o \in DevOpIds : devOps[o].pc = "awaiting" /\ devOps'[o].pc = "done"]_vars

\* a save has failed after a toggle got through: the list shows the toggle only
C18_Witness ==
    /\ devError = DeviceError("save")
    /\ \E o \in DevOpIds : devOps[o].pc = "failed"
    /\ \E o \in DevOpIds : devOps[o].pc = "done"
    /\ devices = << DeviceInfo(<<"B">>, InitialRegistry[<<"B">>]),
                    [DeviceInfo(<<"a">>, InitialRegistry[<<"a">>])
                        EXCEPT !.searchBlocked = TRUE] >>

\* ------------------------------------------------------------------------
\* Properties of the key an added item is stored under
\* ------------------------------------------------------------------------
\* the smallest non-negative integer that is not a key of the category
SmallestUnused(data) ==
    CHOOSE n \in 0..Cardinality(DOMAIN data) :
        n \notin DOMAIN data /\ \A j \in 0..(n - 1) : j \in DOMAIN data

\* a step in which the set of add a is applied
Stores(a) ==
    /\ adds[a].pc = "write" /\ adds[a].op = "add"
    /\ adds'[a].pc = "done"
    /\ unhandled' = unhandled

RouteNext ==
    \/ \E p \in Paths : OpenUrl(p) /\ UNCHANGED <<tableVars, configVars, exceptRoute>>
    \/ AuthStateChanged /\ UNCHANGED <<tableVars, configVars, exceptRoute>>
    \/ \E p \in Paths : FollowLink(p) /\ UNCHANGED <<tableVars, configVars, exceptRoute>>
    \/ GoBack /\ UNCHANGED <<tableVars, configVars, exceptRoute>>
    \/ HandleLogin /\ UNCHANGED <<tableVars, configVars, exceptRoute>>
    \/ \E account \in Accounts :
          PopupResolve(account) /\ UNCHANGED <<tableVars, configVars, exceptRoute>>
    \/ PopupReject /\ UNCHANGED <<tableVars, configVars, exceptRoute>>
    \/ HandleLogout /\ UNCHANGED <<tableVars, configVars, exceptRoute>>

SpecRoute == FetchInit /\ [][RouteNext]_vars

\* C20: a protected page (search logs, config, analytics) is on screen only
\* while a user is signed in whose email ends with '@felice.ed.jp'.
C20_ProtectedPagesDomainOnly ==
    rendered \in ProtectedPages =>
        /\ user # Null
        /\ EndsWith(EmailAddress(user), WorkspaceDomain)

\* ------------------------------------------------------------------------
\* Properties of the confirmation dialog
\* ------------------------------------------------------------------------

\* a step in which Cancel is pressed: the dialog closes and no call starts
Cancels == confirmDialog.show /\ ~confirmDialog'.show /\ exec' = exec

\* C21: a status update is sent only by an executeAction call that started
\* with Confirm pressed in the dialog opened for its action; Cancel closes the
\* dialog, sends nothing and leaves workerStatus, aiStatus and the activity
\* log as they were; the dialog is shown exactly when it holds an action.
C21_ConfirmationFlow ==
    /\ [](confirmDialog.show <=> confirmDialog.action # Null)
    /\ [][/\ \A r \in Issued :
                /\ exec[r.exec].pc = "token"
                /\ r.body = Updates(exec[r.exec].action)
          /\ \A e \in ExecIds :
                Starts(e) => /\ confirmDialog.show
                             /\ confirmDialog.action = exec'[e].action
                             /\ exec'[e].action \in Actions
                             /\ ~confirmDialog'.show
                             /\ Issued = {}
          /\ \A e \in ExecIds :
                (exec[e].pc = "token" /\ exec'[e].pc = "posting") =>
                   exec'[e].action = exec[e].action
          /\ Cancels => /\ confirmDialog'.action = Null
                        /\ requests' = requests
                        /\ workerStatus' = workerStatus
                        /\ aiStatus' = aiStatus
                        /\ workerActivityLogs' = workerActivityLogs
                        /\ kv' = kv]_vars

\* a confirmed bulk disable is being posted: the dialog is closed and the
\* request of that call is the only one sent
C21_Witness ==
    /\ ~confirmDialog.show
    /\ \E r \in requests :
          /\ exec[r.exec].action = "bulk_disable"
          /\ r.body = [worker_status |-> "off", ai_status |-> "off"]
    /\ Cardinality(requests) = 1
    /\ \A e \in ExecIds : exec[e].pc \in {"idle", "posting"}

\* ------------------------------------------------------------------------
\* Properties of the updating flags
\* ------------------------------------------------------------------------
\* the services an action updates
ServicesOf(action) ==
    IF action \in WorkerOnly THEN {"worker"}
    ELSE IF action \in AIOnly THEN {"ai"}
    ELSE {"worker", "ai"}

\* executeAction call e is between Confirm and its settling
InFlight(e) == exec[e].pc \in {"token", "posting", "pushing", "refresh"}

\* C22: while an update of a service is in flight, from Confirm until
\* executeAction settles, the updating flag of that service is true (which
\* disables its ON / OFF buttons and the bulk buttons), and no second update
\* of that service starts before the first has settled.
C22_UpdatingWhileInFlight ==
    /\ [](\A e \in ExecIds :
             InFlight(e) => \A s \in ServicesOf(exec[e].action) : updating[s])
    /\ [][\A e \in ExecIds :
             Starts(e) =>
                \A g \in ExecIds \ {e} :
                   InFlight(g) =>
                      ServicesOf(exec[g].action) \cap ServicesOf(exec'[e].action) = {}]_vars

\* ------------------------------------------------------------------------
\* Properties of overlapping fetchLogs calls
\* ------------------------------------------------------------------------
\* C23: loading is never false while a fetchLogs call is still in flight, and
\* a call never publishes over the list of a call that was requested after it:
\* with loading false the list on screen is that of the latest request.
C23_LatestRequestShown ==
    /\ [](~loading => \A f \in FetchIds : fetch[f].pc # "awaiting")
    /\ [][\A f \in FetchIds :
             Completes(f) =>
                \A g \in FetchIds : g > f => fetch[g].pc # "done"]_vars

\* ------------------------------------------------------------------------
\* Bulk naming of devices that were never named
\* ------------------------------------------------------------------------
BulkInit ==
    /\ TableInit(SmallStore, 60) /\ WorkerInit /\ ConfigInit
    /\ RefreshInit /\ DebounceInit /\ SelectInit /\ RouteInit
    /\ DevicesLoaded(UnnamedRegistry)

BulkNext ==
    \/ \E o \in DevOpIds, form \in EditForms :
          HandleBulkSave(o, form) /\ UNCHANGED otherThanDevices
    \/ \E o \in DevOpIds, d \in DeviceIds :
          HandleDeleteDevice(o, d) /\ UNCHANGED otherThanDevices
    \/ \E o \in DevOpIds, d \in DeviceIds :
          DeviceGetResolve(o, d) /\ UNCHANGED otherThanDevices
    \/ \E o \in DevOpIds, d \in DeviceIds :
          DeviceSetResolve(o, d) /\ UNCHANGED otherThanDevices
    \/ \E o \in DevOpIds, d \in DeviceIds :
          DeviceRemoveResolve(o, d) /\ UNCHANGED otherThanDevices
    \/ \E o \in DevOpIds, d \in DeviceIds :
          DeviceCallReject(o, d) /\ UNCHANGED otherThanDevices

SpecBulk == BulkInit /\ [][BulkNext]_vars

\* the name, isNamed and searchBlocked a form writes
NewValues(form, r) ==
    /\ r.deviceName = Trim(form.deviceName)
    /\ r.isNamed = form.isNamed
    /\ r.searchBlocked = form.searchBlocked

\* a step in which the last read or write of bulk naming o ends
BulkSettles(o) == devOps[o].kind = "bulk" /\ devOps'[o].kind = Null

\* C24: when a bulk naming has settled, every device it went through shows
\* the new name, isNamed and searchBlocked in the local list exactly when its
\* record in the store holds them.
C24_BulkListAgreesWithStore ==
    [][\A o \in DevOpIds :
          BulkSettles(o) =>
             \A d \in DOMAIN devOps[o].subs :
                (\E i \in DOMAIN devices' :
                    /\ devices'[i].deviceId = d
                    /\ NewValues(devOps[o].form, devices'[i]))
                <=> (/\ d \in DOMAIN deviceRegistry'
                     /\ NewValues(devOps[o].form, deviceRegistry'[d]))]_vars

\* ------------------------------------------------------------------------
\* Properties of interleaved adds
\* ------------------------------------------------------------------------
\* every add of the run was for another item and has stored it
AddsStored ==
    /\ \A a \in AddIds : adds[a].op = "add" /\ adds[a].pc = "done"
    /\ \A a, b \in AddIds : a # b => adds[a].item # adds[b].item
    /\ unhandled = {}

\* C25: when addItemToFirebase calls for distinct items have interleaved and
\* stored their items, every one of the items is in the category and the item
\* stored before them is still there.
C25_NoAddLost ==
    AddsStored =>
        /\ \A a \in AddIds : \E k \in DOMAIN config : config[k] = adds[a].item
        /\ 0 \in DOMAIN config /\ config[0] = <<"a">>

\* ------------------------------------------------------------------------
\* Picking the two dates and pressing Filter
\* ------------------------------------------------------------------------
RangeNext ==
    \/ Mount /\ UNCHANGED <<workerVars, configVars, viewVars>>
    \/ \E d \in Days : SetFromDate(d) /\ UNCHANGED <<workerVars, configVars, viewVars>>
    \/ \E d \in Days : SetToDate(d) /\ UNCHANGED <<workerVars, configVars, viewVars>>
    \/ \E f \in FetchIds : HandleFilterClick(f) /\ UNCHANGED <<workerVars, configVars, viewVars>>
    \/ \E f \in FetchIds, d \in Days :
          BucketResolve(f, d) /\ UNCHANGED <<workerVars, configVars, viewVars>>
    \/ \E f \in FetchIds, d \in Days :
          BucketReject(f, d) /\ UNCHANGED <<workerVars, configVars, viewVars>>
    \/ \E f \in FetchIds : FetchPublish(f) /\ UNCHANGED <<workerVars, configVars, viewVars>>

SpecRange == FetchInit /\ [][RangeNext]_vars

\* a number below 100 written with two digits
TwoDigits(n) == <<Digits[(n \div 10) + 1], Digits[(n % 10) + 1]>>

\* {root}/{year}/{month}/{day} of a day of the store, month and day in two digits
PathOfDay(d) ==
    << Root, <<"2", "0", "2", "4">>,
       TwoDigits(GetMonth(24 * d) + 1), TwoDigits(GetDate(24 * d)) >>

\* a step in which fetchLogs call f issues its reads
Requests(f) == fetch[f].pc = "idle" /\ fetch'[f].pc = "awaiting"

\* C26: with from <= to, fetchLogs reads every day from the from-date through
\* the to-date once, at {root}/{year}/{month}/{day} with month and day in two
\* digits, and no other day; with from > to it reads nothing, publishes an
\* empty list and sets no error.
C26_EachDayOfRangeReadOnce ==
    [][\A f \in FetchIds :
          /\ Requests(f) =>
                LET reads == fetch'[f].promises
                IN  /\ Len(reads) = IF fromDate <= toDate THEN toDate - fromDate + 1 ELSE 0
                    /\ \A i \in 1..Len(reads) :
                          /\ reads[i].day = fromDate + i - 1
                          /\ reads[i].path = PathOfDay(fromDate + i - 1)
                    /\ \A i, j \in 1..Len(reads) : i # j => reads[i].path # reads[j].path
                    /\ fetch'[f].pending = {reads[i].day : i \in 1..Len(reads)}
          /\ (Completes(f) /\ fetch[f].from > fetch[f].to) =>
                /\ fetch[f].promises = <<>>
                /\ logs' = <<>>
                /\ error' = Null
                /\ ~loading']_vars

\* a fetch over the two days is reading aiChatLogs/2024/09/30 and
\* aiChatLogs/2024/10/01
C26_Witness ==
    /\ fetch[2].pc = "awaiting"
    /\ fetch[2].from = 1 /\ fetch[2].to = 2
    /\ fetch[2].promises =
          << [day |-> 1, path |-> <<Root, <<"2", "0", "2", "4">>, <<"0", "9">>, <<"3", "0">>>>],
             [day |-> 2, path |-> <<Root, <<"2", "0", "2", "4">>, <<"1", "0">>, <<"0", "1">>>>] >>

\* ------------------------------------------------------------------------
\* The order in which the reads of a fetch complete
\* ------------------------------------------------------------------------
OrderStores == {SmallStore, TieStore}

OrderInit ==
    /\ \E s \in OrderStores : TableInit(s, 60)
    /\ WorkerInit /\ ConfigInit /\ ViewsInit

SpecOrder == OrderInit /\ [][RangeNext]_vars

\* the list a call publishes when its reads complete in the order of the days
InDayOrder(f) == ArraySort("fetch", ConcatDays(store, fetch[f].from, fetch[f].to))

\* two records of different buckets of the range of call f carry the same date
TiesAcrossBuckets(f) ==
    \E d1, d2 \in DayRange(fetch[f].from, fetch[f].to) :
        /\ d1 # d2
        /\ \E r1 \in RecordsOfDay(d1), r2 \in RecordsOfDay(d2) : r1.date = r2.date

\* C27 as stated: whatever the order in which the reads of a call complete,
\* it publishes the same sequence, the one of the reads completing in day
\* order, records of equal date included.
C27_SameListInEveryOrder ==
    [][\A f \in FetchIds :
          (Completes(f) /\ fetch[f].failed = {}) => logs' = InDayOrder(f)]_vars

\* C27, amended: whatever the order in which the reads complete, the call
\* publishes the same records, newest first, with records of equal date from
\* one bucket in the order of their keys; the sequence is the same in every
\* completion order unless records of different buckets carry the same date.
C27_SameListUnlessTiesAcrossBuckets ==
    [][\A f \in FetchIds :
          (Completes(f) /\ fetch[f].failed = {}) =>
             /\ Len(logs') = Len(InDayOrder(f))
             /\ Range(logs') = Range(InDayOrder(f))
             /\ \A i, j \in DOMAIN logs' : i < j => logs'[i].date >= logs'[j].date
             /\ \A d \in DayRange(fetch[f].from, fetch[f].to) :
                   \A i, j \in DOMAIN logs' :
                      (/\ i < j
                       /\ logs'[i].date = logs'[j].date
                       /\ {logs'[i], logs'[j]} \subseteq RecordsOfDay(d)) =>
                         IndexIn(FormatDay(d, store[d]), logs'[i])
                            < IndexIn(FormatDay(d, store[d]), logs'[j])
             /\ ~TiesAcrossBuckets(f) => logs' = InDayOrder(f)]_vars

\* the two days of the store with the tie have been published with the
\* undated chat of day 2 ahead of the chat of day 1 that carries the same date
C27_Witness ==
    /\ store = TieStore
    /\ Len(logs) = 4
    /\ logs[2].id = <<2, 1>> /\ logs[3].id = <<1, 1>>
    /\ logs[2].date = logs[3].date
    /\ ~loading

====
